---- MODULE Spec2Model ----
(***************************************************************************)
(* Model of the Recursive Language Model pipeline of                       *)
(* rlm-skill/scripts/rlm_processor.py: auto_chunk and the four chunkers,   *)
(* filter_relevant_chunks, process_chunk, aggregate_results, rlm_process.  *)
(* The loading step of rlm_process and the tar branch of extract_archive   *)
(* (rlm-skill/scripts/file_converter.py) are modelled too.                 *)
(*                                                                         *)
(* Texts are TLA+ strings, used as sequences of characters (Len, \o and    *)
(* SubSeq), so lengths, slices, prefixes and substring tests are computed  *)
(* on the characters as Python computes them.  The oracle (llm_query) is   *)
(* external: each call either fails with an error or returns one of a      *)
(* small pool of replies.  The fast_model flag only selects which oracle   *)
(* entry point is called and is left out.                                  *)
(***************************************************************************)
EXTENDS Integers, Sequences, FiniteSets, TLC

VARIABLES
    pc,             \* position of the running entry point
    content,        \* rlm_process: the loaded text
    query,          \* the caller's query
    chunk_size,     \* rlm_process: chunk_size argument
    overlap,        \* chunk_by_chars: overlap argument
    chunker,        \* the chunker called on its own, with its arguments
    file,           \* rlm_process: the input file, as the loader finds it
    reads,          \* history: the ways of reading the file tried so far
    archive,        \* extract_archive: the members of the tar archive
    extracted,      \* extract_archive: the members handed to extractall
    filter_chunks,  \* rlm_process: filter_chunks argument
    keywords,       \* filter_relevant_chunks: explicit keywords, or None
    chunks,         \* list of chunks (auto_chunk's result / the filter's input)
    strategy,       \* auto_chunk's strategy tag
    start,          \* chunk_by_chars: loop variable start
    indexed_chunks, \* list of <<original_index, chunk>> (the selection)
    ci,             \* rlm_process: position in indexed_chunks (0-based)
    results,        \* list of <<original_index, extraction>>
    stack,          \* call stack of aggregate_results, innermost frame last
    final_answer,   \* the value returned by the outermost call
    outcomes,       \* history: what the oracle did for each processed chunk
    last_ret,       \* history: the aggregate_results invocation that returned last
    synth_calls,    \* history: number of synthesis oracle calls made so far
    synth_prompts,  \* history: the synthesis prompts sent so far, with their senders
    last_prompt,    \* history: the holes of the last prompt sent to the oracle
    exc             \* the exception that left the entry point, or None

vars == << pc, content, query, chunk_size, overlap, chunker, file, reads, archive, extracted,
                    filter_chunks, keywords, chunks,
           strategy, start, indexed_chunks, ci, results, stack, final_answer,
           outcomes, last_ret, synth_calls, synth_prompts, last_prompt, exc >>

None == "<None>"     \* Python's None (never equal to a text of the pools below)

\* no chunker has been called on its own: the run is one of rlm_process
NoChunker == [fn |-> None]

\* no file is involved: the content is handed over as a text
NoFile == [type |-> None]

(***************************************************************************)
(* Bounds of the model.                                                    *)
(***************************************************************************)
MaxPairs == 3        \* longest extraction list handed to aggregate_results
MaxDepth == 5        \* interpreter recursion limit, scaled down
MaxChunkSteps == 12  \* iterations of the chunk_by_chars loop that are followed
MaxLongReplies == 2  \* long oracle replies to chunk prompts in one run
MaxFilterChunks == 11 \* longest chunk list handed to filter_relevant_chunks
MaxRelevant == 2     \* chunks of that list that mention the query's subject
MaxContent == 10     \* longest content handed to chunk_by_chars
MaxChunkSize == 4    \* largest chunk_size handed to chunk_by_chars
MaxOverlapArg == 4   \* largest overlap handed to chunk_by_chars
MaxLinesPerChunk == 3 \* largest lines_per_chunk handed to chunk_by_lines
MaxMembers == 3      \* most members of a tar archive

(***************************************************************************)
(* Python string primitives.                                               *)
(***************************************************************************)
Min(a, b) == IF a < b THEN a ELSE b

Max(a, b) == IF a > b THEN a ELSE b

\* c * n
RECURSIVE Rep(_, _)
Rep(c, n) ==
    IF n <= 0 THEN ""
    ELSE IF n = 1 THEN c
    ELSE LET h == Rep(c, n \div 2)
         IN  IF n % 2 = 0 THEN h \o h ELSE h \o h \o c

\* the character at 1-based position i, "" when there is none
Char(s, i) == IF 1 <= i /\ i <= Len(s) THEN SubSeq(s, i, i) ELSE ""

\* a slice bound as Python normalises it: negative counts from the end,
\* then clamped into 0..len
SliceIndex(k, len) == IF k < 0 THEN Max(len + k, 0) ELSE Min(k, len)

\* s[a:b]
PySlice(s, a, b) ==
    LET lo == SliceIndex(a, Len(s))
        hi == SliceIndex(b, Len(s))
    IN  IF hi <= lo THEN "" ELSE SubSeq(s, lo + 1, hi)

Whitespace == {" ", "\n", "\t", "\r"}

\* s.strip()
Strip(s) ==
    IF \A k \in 1..Len(s) : Char(s, k) \in Whitespace THEN ""
    ELSE LET lo == CHOOSE k \in 1..Len(s) :
                       /\ Char(s, k) \notin Whitespace
                       /\ \A j \in 1..(k - 1) : Char(s, j) \in Whitespace
             hi == CHOOSE k \in 1..Len(s) :
                       /\ Char(s, k) \notin Whitespace
                       /\ \A j \in (k + 1)..Len(s) : Char(s, j) \in Whitespace
         IN  SubSeq(s, lo, hi)

\* needle in hay
Contains(hay, needle) ==
    \E k \in 0..(Len(hay) - Len(needle)) :
        SubSeq(hay, k + 1, k + Len(needle)) = needle

\* str(n) for n >= 0
Str(n) == ToString(n)

(***************************************************************************)
(* Splitting and joining.                                                  *)
(***************************************************************************)

\* the elements of a finite set of integers in increasing order
SortedSeq(S) ==
    [k \in 1..Cardinality(S) |->
        CHOOSE i \in S : Cardinality({j \in S : j <= i}) = k]

\* the positions where sep occurs in s
Occurrences(s, sep) ==
    {i \in 1..(Len(s) - Len(sep) + 1) : SubSeq(s, i, i + Len(sep) - 1) = sep}

\* the occurrences a left-to-right scan keeps: each starts at or after pos
\* and after the end of the one before it
RECURSIVE ScanFrom(_, _, _)
ScanFrom(occ, width, pos) ==
    LET rest == {i \in occ : i >= pos}
    IN  IF rest = {} THEN {}
        ELSE LET i == CHOOSE m \in rest : \A n \in rest : m <= n
             IN  {i} \cup ScanFrom(occ, width, i + width)

\* the separator occurrences s.split(sep) cuts at (non-overlapping, leftmost
\* first); when no two occurrences overlap these are all of them
SplitPoints(s, sep) ==
    LET occ == Occurrences(s, sep)
    IN  IF \A i, j \in occ : i < j => j - i >= Len(sep) THEN occ
        ELSE ScanFrom(occ, Len(sep), 1)

\* the pieces of s between the cuts at the positions of sorted sequence P,
\* each cut removing width characters
Pieces(s, P, width) ==
    [k \in 1..(Len(P) + 1) |->
        LET from == IF k = 1 THEN 1 ELSE P[k - 1] + width
            to   == IF k = Len(P) + 1 THEN Len(s) ELSE P[k] - 1
        IN  IF to < from THEN "" ELSE SubSeq(s, from, to)]

\* s.split(sep), sep non-empty
Split(s, sep) == Pieces(s, SortedSeq(SplitPoints(s, sep)), Len(sep))

\* sep.join(parts)
RECURSIVE Join(_, _)
Join(parts, sep) ==
    IF parts = << >> THEN ""
    ELSE IF Len(parts) = 1 THEN parts[1]
    ELSE LET h == Len(parts) \div 2
         IN  Join(SubSeq(parts, 1, h), sep) \o sep
                 \o Join(SubSeq(parts, h + 1, Len(parts)), sep)

\* mutant: the blank segments are kept
IsNonEmpty_KeepBlank(t) == t = t

\* [p.strip() for p in parts if p.strip()]
IsNonEmpty(t) == t # ""

\* mutant: the blank segments are dropped but the kept ones are not trimmed
StripAndDropEmpty_Untrimmed(parts) ==
    SelectSeq(parts, LAMBDA t : Strip(t) # "")

StripAndDropEmpty(parts) ==
    SelectSeq([k \in 1..Len(parts) |-> Strip(parts[k])], IsNonEmpty)

\* [(i, c) for i, c in enumerate(chunks)]
Enumerate(cs) == [k \in 1..Len(cs) |-> << k - 1, cs[k] >>]

(***************************************************************************)
(* Chunking strategies                                                     *)
(***************************************************************************)
DefaultOverlap == 500

\* one iteration of the while loop of chunk_by_chars, from loop variable st:
\* the chunk appended and the next value of start
CharsEnd(text, st, size) == Min(st + size, Len(text))

CharsChunk(text, st, size) == PySlice(text, st, CharsEnd(text, st, size))

\* mutant: the next window starts where the last one ended (no overlap)
CharsNextStart_NoOverlap(text, st, size, ov) == CharsEnd(text, st, size)

\* mutant: the overlap is taken back after the last window too
CharsNextStart_AlwaysBack(text, st, size, ov) ==
    LET end == CharsEnd(text, st, size)
    IN  IF ov # 0 THEN end - ov ELSE end

CharsNextStart(text, st, size, ov) ==
    LET end == CharsEnd(text, st, size)
    IN  IF ov # 0 /\ end < Len(text) THEN end - ov ELSE end

\* mutant: a last group with fewer than lines_per_chunk lines is left out
ChunkByLines_FullGroupsOnly(text, lines_per_chunk) ==
    LET lines == Split(text, "\n")
        n     == Len(lines) \div lines_per_chunk
    IN  [g \in 1..n |->
            Join(SubSeq(lines, (g - 1) * lines_per_chunk + 1,
                        g * lines_per_chunk), "\n")]

\* chunk_by_lines
ChunkByLines(text, lines_per_chunk) ==
    LET lines == Split(text, "\n")
        n     == (Len(lines) + lines_per_chunk - 1) \div lines_per_chunk
    IN  [g \in 1..n |->
            Join(SubSeq(lines, (g - 1) * lines_per_chunk + 1,
                        Min(g * lines_per_chunk, Len(lines))), "\n")]

\* chunk_by_separator
ChunkBySeparator(text, separator) == StripAndDropEmpty(Split(text, separator))

\* the last position of the run of character c that starts at position i
\* (i - 1 when s[i] is not c)
RunEnd(s, i, c) ==
    CHOOSE j \in (i - 1)..Len(s) :
        /\ \A k \in i..j : Char(s, k) = c
        /\ Char(s, j + 1) # c

\* the matches of r'\n(?=#{1,2}\s+)': a newline followed by one or two '#'
\* and then whitespace
HeaderBreaks(s) ==
    {i \in 1..Len(s) :
        /\ Char(s, i) = "\n"
        /\ Char(s, i + 1) = "#"
        /\ \/ Char(s, i + 2) \in Whitespace
           \/ Char(s, i + 2) = "#" /\ Char(s, i + 3) \in Whitespace}

\* chunk_by_regex(content, r'\n(?=#{1,2}\s+)'), the only pattern auto_chunk uses
ChunkByHeaders(text) ==
    StripAndDropEmpty(Pieces(text, SortedSeq(HeaderBreaks(text)), 1))

\* the pattern auto_chunk hands to chunk_by_regex
HeaderPattern == "\\n(?=#{1,2}\\s+)"

\* mutant: the segments are returned as re.split gives them
ChunkByRegex_Unfiltered(text, pattern) ==
    IF pattern = HeaderPattern
    THEN Pieces(text, SortedSeq(HeaderBreaks(text)), 1)
    ELSE Split(text, pattern)

\* chunk_by_regex; a pattern without metacharacters matches its own text,
\* leftmost first and without overlap, as str.split cuts
ChunkByRegex(text, pattern) ==
    IF pattern = HeaderPattern THEN ChunkByHeaders(text)
    ELSE StripAndDropEmpty(Split(text, pattern))

\* where a match of r'\n---+\n|\n===+\n' that starts at i ends (0: no match)
SeparatorEnd(s, i) ==
    LET d == Char(s, i + 1)
        e == RunEnd(s, i + 1, d)
    IN  IF /\ Char(s, i) = "\n"
           /\ d \in {"-", "="}
           /\ e - i >= 3
           /\ Char(s, e + 1) = "\n"
        THEN e + 1 ELSE 0

\* the matches re.findall keeps, scanning from pos: a match consumes its
\* closing newline, so the next one starts after it
RECURSIVE SeparatorsFrom(_, _)
SeparatorsFrom(s, pos) ==
    LET cand == {i \in pos..Len(s) : SeparatorEnd(s, i) > 0}
    IN  IF cand = {} THEN 0
        ELSE LET i == CHOOSE m \in cand : \A n \in cand : m <= n
             IN  1 + SeparatorsFrom(s, SeparatorEnd(s, i) + 1)

\* doc_seps = len(re.findall(r'\n---+\n|\n===+\n', content))
DocSeps(text) == SeparatorsFrom(text, 1)

\* md_headers = len(re.findall(r'^#+\s+', content, re.MULTILINE))
MdHeaders(text) ==
    Cardinality({i \in 1..Len(text) :
        /\ Char(text, i) = "#"
        /\ i = 1 \/ Char(text, i - 1) = "\n"
        /\ Char(text, RunEnd(text, i, "#") + 1) \in Whitespace})

\* total_lines = content.count('\n')
TotalLines(text) == Cardinality({i \in 1..Len(text) : Char(text, i) = "\n"})

\* auto_chunk's choice of strategy (json_objs is computed and never used);
\* total_chars / n < m is compared as total_chars < m * n, n being positive
UseSeparator(text, target) ==
    /\ DocSeps(text) > 5
    /\ Len(text) < target * 2 * DocSeps(text)

\* mutant: the sizes of the sections are not looked at
UseMarkdown_CountOnly(text, target) == MdHeaders(text) > 10

UseMarkdown(text, target) ==
    /\ MdHeaders(text) > 10
    /\ \A k \in 1..Len(ChunkByHeaders(text)) :
           Len(ChunkByHeaders(text)[k]) < target * 2

UseLines(text, target) ==
    /\ TotalLines(text) > 100
    /\ Len(text) < 200 * TotalLines(text)

\* mutant: the markdown rule is tried before the separator rule
AutoStrategy_MarkdownFirst(text, target) ==
    IF UseMarkdown(text, target) THEN "markdown_headers"
    ELSE IF UseSeparator(text, target) THEN "document_separator"
    ELSE IF UseLines(text, target) THEN "line_count"
    ELSE "character_count"

AutoStrategy(text, target) ==
    IF UseSeparator(text, target) THEN "document_separator"
    ELSE IF UseMarkdown(text, target) THEN "markdown_headers"
    ELSE IF UseLines(text, target) THEN "line_count"
    ELSE "character_count"


(***************************************************************************)
(* filter_relevant_chunks                                                  *)
(***************************************************************************)
LowerLetters == "abcdefghijklmnopqrstuvwxyz"

UpperLetters == "ABCDEFGHIJKLMNOPQRSTUVWXYZ"

\* c.lower() for one character
LowerChar(c) ==
    IF \E i \in 1..Len(UpperLetters) : Char(UpperLetters, i) = c
    THEN Char(LowerLetters, CHOOSE i \in 1..Len(UpperLetters) : Char(UpperLetters, i) = c)
    ELSE c

\* s.lower()
RECURSIVE Lower(_)
Lower(s) ==
    IF Len(s) <= 1 THEN LowerChar(s)
    ELSE LET h == Len(s) \div 2
         IN  Lower(SubSeq(s, 1, h)) \o Lower(SubSeq(s, h + 1, Len(s)))

\* the characters \w matches
WordChars ==
    LET w == LowerLetters \o UpperLetters \o "0123456789_"
    IN  {Char(w, i) : i \in 1..Len(w)}

\* re.findall(r'\b\w{4,}\b', s): the maximal runs of word characters that
\* are at least four characters long, in order
LongWord(w) == Len(w) >= 4

WordsOfFour(s) ==
    LET starts == {i \in 1..Len(s) :
                      Char(s, i) \in WordChars /\ Char(s, i - 1) \notin WordChars}
        last(i) == CHOOSE j \in i..Len(s) :
                      /\ \A k \in i..j : Char(s, k) \in WordChars
                      /\ Char(s, j + 1) \notin WordChars
        P      == SortedSeq(starts)
    IN  SelectSeq([k \in 1..Len(P) |-> SubSeq(s, P[k], last(P[k]))], LongWord)

Stopwords ==
    {"what", "when", "where", "which", "about", "this", "that",
     "with", "from", "have", "does", "find", "list", "show"}

\* mutant: the stop words are kept as keywords
NotStopword_KeepAll(w) == w = w

NotStopword(w) == w \notin Stopwords

\* keywords = [w for w in query_words if w not in stopwords]
QueryKeywords(q) == SelectSeq(WordsOfFour(Lower(q)), NotStopword)

\* the optional keywords argument: << >> is None, << list >> is a list
NoKeywords == << >>

\* the keywords after the first "if not keywords:" block
EffectiveKeywords(q, kws) ==
    IF kws = NoKeywords \/ kws[1] = << >> THEN QueryKeywords(q) ELSE kws[1]

\* mutant: the keywords are searched for as they are spelt
MatchesAny_CaseSensitive(chunk, kw) ==
    \E k \in 1..Len(kw) : Contains(chunk, kw[k])

\* re.search('|'.join(re.escape(kw) ...), chunk, re.IGNORECASE)
MatchesAny(chunk, kw) ==
    \E k \in 1..Len(kw) : Contains(Lower(chunk), Lower(kw[k]))

\* mutant: the fallback never fires
TooFew_Never(nrelevant, nchunks) == nrelevant < 0

\* mutant: the fallback fires below 1% instead of 10%
TooFew_OnePercent(nrelevant, nchunks) == 100 * nrelevant < nchunks

\* len(relevant) < len(chunks) * 0.1
TooFew(nrelevant, nchunks) == 10 * nrelevant < nchunks

\* mutant: the matching chunks are numbered by their position in the subset
FilterRelevantChunks_Renumbered(cs, q, kws) ==
    LET kw       == EffectiveKeywords(q, kws)
        hit(c)   == MatchesAny(c, kw)
        relevant == Enumerate(SelectSeq(cs, hit))
    IN  IF kw = << >> THEN Enumerate(cs)
        ELSE IF TooFew(Len(relevant), Len(cs)) THEN Enumerate(cs)
        ELSE relevant

FilterRelevantChunks(cs, q, kws) ==
    LET kw       == EffectiveKeywords(q, kws)
        hit(p)   == MatchesAny(p[2], kw)
        relevant == SelectSeq(Enumerate(cs), hit)
    IN  IF kw = << >> THEN Enumerate(cs)
        ELSE IF TooFew(Len(relevant), Len(cs)) THEN Enumerate(cs)
        ELSE relevant


(***************************************************************************)
(* The oracle (llm_query / llm_query_fast): a call raises one of these     *)
(* errors or returns one of the replies of the caller's pool.              *)
(***************************************************************************)
OracleErrors == {"API error: overloaded"}

SynthReplies == {"Final answer.", Rep("z", 30000)}

(***************************************************************************)
(* process_chunk                                                           *)
(***************************************************************************)
SentinelToken == "NO_RELEVANT_INFO"

\* mutant: only a reply that is the sentinel and nothing else is absent
ProcessReply_ExactSentinel(reply) ==
    IF reply = SentinelToken THEN None ELSE Strip(reply)

\* what process_chunk returns when the oracle replies:
\*   if "NO_RELEVANT_INFO" in result: return None
\*   return result.strip()
ProcessReply(reply) ==
    IF Contains(reply, SentinelToken) THEN None ELSE Strip(reply)

\* the replies the oracle may give for a chunk: short ones, and long ones
\* (half of the aggregation threshold, and just enough for one labelled
\* section to exceed it)
ShortReplies ==
    {"NO_RELEVANT_INFO", "Nothing on that here: NO_RELEVANT_INFO.\n",
     "  Found: SQL injection.\n", ""}

LongReplies == {Rep("y", 25000), Rep("x", 49989)}

\* each reply with what process_chunk makes of it
ChunkOutcomes ==
    {[reply |-> r, result |-> ProcessReply(r)] : r \in ShortReplies \cup LongReplies}

\* "if result:" in rlm_process
Truthy(result) == result # None /\ result # ""


(***************************************************************************)
(* aggregate_results                                                       *)
(***************************************************************************)
AggregationThreshold == 50000

RawFindingsPrefix == 5000

NoInfoAnswer == "No relevant information found in the provided context for this query."

SubQuery == "Summarize these findings"

\* mutant: the label is the index itself
FormatSection_ZeroBased(pair) == "[Section " \o Str(pair[1]) \o "]\n" \o pair[2]

\* f"[Section {chunk_idx + 1}]\n{result}"
FormatSection(pair) == "[Section " \o Str(pair[1] + 1) \o "]\n" \o pair[2]

\* "\n\n".join(formatted) over the formatted pairs of rs
RECURSIVE Combined(_)
Combined(rs) ==
    IF rs = << >> THEN ""
    ELSE IF Len(rs) = 1 THEN FormatSection(rs[1])
    ELSE Combined(SubSeq(rs, 1, Len(rs) - 1)) \o "\n\n" \o FormatSection(rs[Len(rs)])

\* mutant: the threshold test is >= instead of >
NeedsSplit_AtThreshold(combined) == Len(combined) >= 50000

\* len(combined) > 50000
NeedsSplit(combined) == Len(combined) > AggregationThreshold

\* mutant: the middle is rounded up
Mid_RoundedUp(rs) == (Len(rs) + 1) \div 2

\* mid = len(results) // 2
Mid(rs) == Len(rs) \div 2

\* results[:mid]
LeftHalf(rs) == SubSeq(rs, 1, Mid(rs))

\* results[mid:]
RightHalf(rs) == SubSeq(rs, Mid(rs) + 1, Len(rs))

\* f"Summary Part 1:\n{left_agg}\n\nSummary Part 2:\n{right_agg}"
Summaries(left_agg, right_agg) ==
    "Summary Part 1:\n" \o left_agg \o "\n\nSummary Part 2:\n" \o right_agg

\* mutant: the raw findings are not truncated
Degraded_Untruncated(e, combined) ==
    "Error during aggregation: " \o e \o "\n\nRaw findings:\n" \o combined

\* f"Error during aggregation: {e}\n\nRaw findings:\n{combined[:5000]}"
Degraded(e, combined) ==
    "Error during aggregation: " \o e \o "\n\nRaw findings:\n"
        \o PySlice(combined, 0, RawFindingsPrefix)

\* the activation record of one invocation of aggregate_results
NewFrame(rs, q) ==
    [results |-> rs, query |-> q, pc |-> "enter", combined |-> "",
     left_agg |-> "", right_agg |-> "", calls |-> 0, recursed |-> 0]

Top == stack[Len(stack)]

SetTop(f) == [stack EXCEPT ![Len(stack)] = f]

\* the innermost invocation f returns v: to the caller of the entry point
\* when it is the outermost one, else into left_agg / right_agg of its caller
AggReturn(v, f, err) ==
    /\ last_ret' = [results |-> f.results, query |-> f.query,
                    combined |-> f.combined, calls |-> f.calls,
                    recursed |-> f.recursed, value |-> v, error |-> err,
                    depth |-> Len(stack)]
    /\ IF Len(stack) = 1
       THEN /\ stack' = << >>
            /\ final_answer' = v
            /\ pc' = "returned"
       ELSE LET parent == stack[Len(stack) - 1]
                resumed == IF parent.pc = "left"
                           THEN [parent EXCEPT !.pc = "left_ret", !.left_agg = v]
                           ELSE [parent EXCEPT !.pc = "right_ret", !.right_agg = v]
            IN  /\ stack' = [SubSeq(stack, 1, Len(stack) - 1)
                                EXCEPT ![Len(stack) - 1] = resumed]
                /\ UNCHANGED << final_answer, pc >>

pipeVars == << content, query, chunk_size, overlap, chunker, file, reads, archive, extracted,
                    filter_chunks, keywords, chunks,
               strategy, start, indexed_chunks, ci, results, outcomes >>

InAgg == pc = "aggregate" /\ stack # << >>

\* mutant: an empty list goes on to the synthesis step
AggEmpty_Synthesizes ==
    /\ InAgg /\ Top.pc = "enter" /\ Top.results = << >>
    /\ stack' = SetTop([Top EXCEPT !.pc = "synth"])
    /\ UNCHANGED << pipeVars, pc, final_answer, last_ret, synth_calls, synth_prompts,
                    last_prompt, exc >>

\* if not results: return "No relevant information found ..."
AggEmpty ==
    /\ InAgg /\ Top.pc = "enter" /\ Top.results = << >>
    /\ AggReturn(NoInfoAnswer, Top, None)
    /\ UNCHANGED << pipeVars, synth_calls, synth_prompts, last_prompt, exc >>

\* formatted = [...]; combined = "\n\n".join(formatted)
AggFormat ==
    /\ InAgg /\ Top.pc = "enter" /\ Top.results # << >>
    /\ stack' = SetTop([Top EXCEPT !.pc = "check",
                                   !.combined = Combined(Top.results)])
    /\ UNCHANGED << pipeVars, pc, final_answer, last_ret, synth_calls, synth_prompts,
                    last_prompt, exc >>

\* combined is at or below the threshold: go to the synthesis step
AggDirect ==
    /\ InAgg /\ Top.pc = "check"
    /\ ~NeedsSplit(Top.combined)
    /\ stack' = SetTop([Top EXCEPT !.pc = "synth"])
    /\ UNCHANGED << pipeVars, pc, final_answer, last_ret, synth_calls, synth_prompts,
                    last_prompt, exc >>

\* left_agg = aggregate_results(results[:mid], "Summarize these findings", ...)
AggSplitLeft ==
    /\ InAgg /\ Top.pc = "check"
    /\ NeedsSplit(Top.combined)
    /\ Len(stack) < MaxDepth
    /\ stack' = Append(SetTop([Top EXCEPT !.pc = "left", !.recursed = @ + 1]),
                       NewFrame(LeftHalf(Top.results), SubQuery))
    /\ UNCHANGED << pipeVars, pc, final_answer, last_ret, synth_calls, synth_prompts,
                    last_prompt, exc >>

\* the recursion has reached the interpreter's recursion limit: the call
\* raises RecursionError, which no frame of aggregate_results catches
AggRecursionError ==
    /\ InAgg /\ Top.pc = "check"
    /\ NeedsSplit(Top.combined)
    /\ Len(stack) >= MaxDepth
    /\ pc' = "raised"
    /\ exc' = "RecursionError"
    /\ UNCHANGED << pipeVars, stack, final_answer, last_ret, synth_calls, synth_prompts,
                    last_prompt >>

\* right_agg = aggregate_results(results[mid:], "Summarize these findings", ...)
AggSplitRight ==
    /\ InAgg /\ Top.pc = "left_ret"
    /\ stack' = Append(SetTop([Top EXCEPT !.pc = "right", !.recursed = @ + 1]),
                       NewFrame(RightHalf(Top.results), SubQuery))
    /\ UNCHANGED << pipeVars, pc, final_answer, last_ret, synth_calls, synth_prompts,
                    last_prompt, exc >>

\* combined = f"Summary Part 1: ... Summary Part 2: ..."
AggCombine ==
    /\ InAgg /\ Top.pc = "right_ret"
    /\ stack' = SetTop([Top EXCEPT !.pc = "synth",
                           !.combined = Summaries(Top.left_agg, Top.right_agg)])
    /\ UNCHANGED << pipeVars, pc, final_answer, last_ret, synth_calls, synth_prompts,
                    last_prompt, exc >>

\* the holes of aggregation_prompt
SynthPrompt(f) == [kind |-> "synthesis", body |-> f.combined, query |-> f.query]

\* the record of a synthesis prompt: its holes, the list and the depth of the
\* invocation that sends it, and whether that invocation has recursed
Sent(f, depth) ==
    [body |-> f.combined, query |-> f.query, results |-> f.results,
     depth |-> depth, recursed |-> f.recursed]

\* return query_fn(aggregation_prompt, max_tokens=4096)
AggSynthOk ==
    /\ InAgg /\ Top.pc = "synth"
    /\ \E reply \in SynthReplies :
           AggReturn(reply, [Top EXCEPT !.calls = @ + 1], None)
    /\ synth_calls' = synth_calls + 1
    /\ last_prompt' = SynthPrompt(Top)
    /\ synth_prompts' = Append(synth_prompts, Sent(Top, Len(stack)))
    /\ UNCHANGED << pipeVars, exc >>

\* except Exception as e: return f"Error during aggregation: ..."
AggSynthFail ==
    /\ InAgg /\ Top.pc = "synth"
    /\ \E e \in OracleErrors :
           AggReturn(Degraded(e, Top.combined), [Top EXCEPT !.calls = @ + 1], e)
    /\ synth_calls' = synth_calls + 1
    /\ last_prompt' = SynthPrompt(Top)
    /\ synth_prompts' = Append(synth_prompts, Sent(Top, Len(stack)))
    /\ UNCHANGED << pipeVars, exc >>

AggNext ==
    \/ AggEmpty \/ AggFormat \/ AggDirect \/ AggSplitLeft \/ AggRecursionError
    \/ AggSplitRight \/ AggCombine \/ AggSynthOk \/ AggSynthFail

(***************************************************************************)
(* AggSpec: aggregate_results called on its own (it is independently       *)
(* callable) with an arbitrary list of (original_index, extraction) pairs. *)
(***************************************************************************)
ExtractionPool ==
    {"SQL injection in login.", Rep("y", 25000), Rep("x", 49988), Rep("x", 49989)}

UserQuery == "security issues"

NoRet == [results |-> << >>, query |-> None, combined |-> "", calls |-> 0,
          recursed |-> 0, value |-> None, error |-> None, depth |-> 0]

NoPrompt == [kind |-> None]

AggInit ==
    /\ pc = "agg_input"
    /\ content = "" /\ query = UserQuery /\ chunk_size = 0
    /\ overlap = DefaultOverlap /\ chunker = NoChunker /\ file = NoFile /\ reads = << >>
    /\ archive = << >> /\ extracted = << >>
    /\ filter_chunks = FALSE /\ keywords = None
    /\ chunks = << >> /\ strategy = None /\ start = 0
    /\ indexed_chunks = << >> /\ ci = 0 /\ results = << >>
    /\ stack = << >> /\ final_answer = None /\ outcomes = << >>
    /\ last_ret = NoRet /\ synth_calls = 0 /\ synth_prompts = << >> /\ last_prompt = NoPrompt
    /\ exc = None

\* the caller appends one more pair; original indices increase along the list
AggAddPair ==
    /\ pc = "agg_input" /\ Len(results) < MaxPairs
    /\ \E text \in ExtractionPool, first \in {0, 1} :
           LET idx == IF results = << >> THEN first
                      ELSE results[Len(results)][1] + 1
           IN  results' = Append(results, << idx, text >>)
    /\ UNCHANGED << pc, content, query, chunk_size, overlap, chunker, file, reads, archive, extracted,
                    filter_chunks, keywords,
                    chunks, strategy, start, indexed_chunks, ci, stack,
                    final_answer, outcomes, last_ret, synth_calls, synth_prompts,
                    last_prompt, exc >>

\* aggregate_results(results, query, fast_model)
AggCall ==
    /\ pc = "agg_input"
    /\ pc' = "aggregate"
    /\ stack' = << NewFrame(results, query) >>
    /\ UNCHANGED << pipeVars, final_answer, last_ret, synth_calls, synth_prompts,
                    last_prompt, exc >>

AggSpecNext == AggAddPair \/ AggCall \/ AggNext

AggSpec == AggInit /\ [][AggSpecNext]_vars

(***************************************************************************)
(* rlm_process, from the point where the content has been loaded.          *)
(***************************************************************************)
SeparatorDoc ==
    "Security flaw in login\n---\nCooking recipes\n---\n\n---\n\n===\nSECURITY fix\n---\n\n---\nRelease notes\n"

MarkdownDoc ==
    "## Intro\ntext\n" \o Rep("### a\n", 9) \o "## Security\nmore\n"

LinesDoc == Rep("ab\n", 101)

Question == "What does this list?"

\* the calls of rlm_process that are followed: content, chunk_size, query
\* and filter_chunks
PipelineInputs ==
    {[content |-> "", chunk_size |-> 600, query |-> UserQuery, filter |-> TRUE],
     [content |-> "Security bug in parser.", chunk_size |-> 600,
      query |-> UserQuery, filter |-> TRUE],
     [content |-> Rep("x", 700), chunk_size |-> 600, query |-> UserQuery,
      filter |-> FALSE],
     [content |-> Rep("x", 700), chunk_size |-> 500, query |-> UserQuery,
      filter |-> TRUE],
     [content |-> SeparatorDoc, chunk_size |-> 600, query |-> UserQuery,
      filter |-> TRUE],
     [content |-> SeparatorDoc, chunk_size |-> 600, query |-> Question,
      filter |-> TRUE],
     [content |-> MarkdownDoc, chunk_size |-> 600, query |-> UserQuery,
      filter |-> TRUE],
     [content |-> LinesDoc, chunk_size |-> 600, query |-> Question,
      filter |-> FALSE]}

Init ==
    /\ pc = "loaded"
    /\ \E inp \in PipelineInputs :
           /\ content = inp.content /\ chunk_size = inp.chunk_size
           /\ query = inp.query /\ filter_chunks = inp.filter
    /\ overlap = DefaultOverlap /\ chunker = NoChunker /\ file = NoFile /\ reads = << >>
    /\ archive = << >> /\ extracted = << >>
    /\ keywords = NoKeywords
    /\ chunks = << >> /\ strategy = None /\ start = 0
    /\ indexed_chunks = << >> /\ ci = 0 /\ results = << >>
    /\ stack = << >> /\ final_answer = None /\ outcomes = << >>
    /\ last_ret = NoRet /\ synth_calls = 0 /\ synth_prompts = << >> /\ last_prompt = NoPrompt
    /\ exc = None

aggVars == << stack, final_answer, last_ret, synth_calls, synth_prompts, exc >>

\* auto_chunk returns a strategy whose chunker is a single expression
AutoChunkReturn(cs, tag) ==
    /\ chunks' = cs
    /\ strategy' = tag
    /\ pc' = "chunked"
    /\ UNCHANGED << content, query, chunk_size, overlap, chunker, file, reads, archive, extracted,
                    filter_chunks, keywords, start,
                    indexed_chunks, ci, results, outcomes, last_prompt, aggVars >>

\* return chunk_by_separator(content, '\n---'), 'document_separator'
AutoChunkSeparator ==
    /\ pc = "loaded"
    /\ AutoStrategy(content, chunk_size) = "document_separator"
    /\ AutoChunkReturn(ChunkBySeparator(content, "\n---"), "document_separator")

\* return chunks, 'markdown_headers'
AutoChunkMarkdown ==
    /\ pc = "loaded"
    /\ AutoStrategy(content, chunk_size) = "markdown_headers"
    /\ AutoChunkReturn(ChunkByHeaders(content), "markdown_headers")

\* lines_per_chunk = max(100, target_chunk_size // 100)
AutoChunkLines ==
    /\ pc = "loaded"
    /\ AutoStrategy(content, chunk_size) = "line_count"
    /\ AutoChunkReturn(ChunkByLines(content, Max(100, chunk_size \div 100)),
                       "line_count")

\* chunk_by_chars(content, target_chunk_size) is entered: chunks = [], start = 0
AutoChunkChars ==
    /\ pc = "loaded"
    /\ AutoStrategy(content, chunk_size) = "character_count"
    /\ pc' = "chunking"
    /\ chunks' = << >>
    /\ start' = 0
    /\ overlap' = DefaultOverlap
    /\ UNCHANGED << content, query, chunk_size, chunker, file, reads, archive, extracted,
                    filter_chunks, keywords,
                    strategy, indexed_chunks, ci, results, outcomes,
                    last_prompt, aggVars >>

\* one iteration of "while start < len(content)"
ChunkByCharsStep ==
    /\ pc = "chunking"
    /\ start < Len(content)
    /\ Len(chunks) < MaxChunkSteps
    /\ chunks' = Append(chunks, CharsChunk(content, start, chunk_size))
    /\ start' = CharsNextStart(content, start, chunk_size, overlap)
    /\ UNCHANGED << pc, content, query, chunk_size, overlap, chunker, file, reads, archive, extracted,
                    filter_chunks, keywords,
                    strategy, indexed_chunks, ci, results, outcomes,
                    last_prompt, aggVars >>

\* the loop ends: return chunks, 'character_count'
ChunkByCharsReturn ==
    /\ pc = "chunking"
    /\ start >= Len(content)
    /\ strategy' = "character_count"
    /\ pc' = "chunked"
    /\ UNCHANGED << content, query, chunk_size, overlap, chunker, file, reads, archive, extracted,
                    filter_chunks, keywords, chunks,
                    start, indexed_chunks, ci, results, outcomes, last_prompt,
                    aggVars >>

Selected(sel) ==
    /\ indexed_chunks' = sel
    /\ ci' = 0
    /\ results' = << >>
    /\ pc' = "process"
    /\ UNCHANGED << content, query, chunk_size, overlap, chunker, file, reads, archive, extracted,
                    filter_chunks, keywords, chunks,
                    strategy, start, outcomes, last_prompt, aggVars >>

\* if filter_chunks and len(chunks) > 3: filter_relevant_chunks(chunks, query)
FilterSelect ==
    /\ pc = "chunked"
    /\ filter_chunks /\ Len(chunks) > 3
    /\ Selected(FilterRelevantChunks(chunks, query, NoKeywords))

\* else: indexed_chunks = [(i, c) for i, c in enumerate(chunks)]
FilterSkip ==
    /\ pc = "chunked"
    /\ ~(filter_chunks /\ Len(chunks) > 3)
    /\ Selected(Enumerate(chunks))

\* mutant: the prompt states the number of retained chunks as the total
ChunkPrompt_FilteredTotal(orig_idx, chunk) ==
    [kind |-> "chunk", section |-> orig_idx + 1,
     total |-> Len(indexed_chunks), query |-> query, body |-> chunk]

\* the holes of chunk_prompt
ChunkPrompt(orig_idx, chunk) ==
    [kind |-> "chunk", section |-> orig_idx + 1, total |-> Len(chunks),
     query |-> query, body |-> chunk]

\* one pass of the for loop over indexed_chunks, process_chunk included
Processed(reply, err, result) ==
    LET orig_idx == indexed_chunks[ci + 1][1]
        chunk    == indexed_chunks[ci + 1][2]
    IN  /\ last_prompt' = ChunkPrompt(orig_idx, chunk)
        /\ outcomes' = Append(outcomes, [index |-> orig_idx, reply |-> reply,
                                          error |-> err, result |-> result])
        /\ results' = IF Truthy(result)
                      THEN Append(results, << orig_idx, result >>)
                      ELSE results
        /\ ci' = ci + 1
        /\ UNCHANGED << pc, content, query, chunk_size, overlap, chunker, file, reads, archive, extracted,
                    filter_chunks, keywords,
                        chunks, strategy, start, indexed_chunks, aggVars >>

\* the long replies the oracle has given in this run
LongSoFar == Cardinality({k \in 1..Len(outcomes) : outcomes[k].reply \in LongReplies})

\* the oracle replies to the chunk prompt
ProcessChunkOk ==
    /\ pc = "process"
    /\ ci < Len(indexed_chunks)
    /\ \E o \in ChunkOutcomes :
           /\ o.reply \in LongReplies => LongSoFar < MaxLongReplies
           /\ Processed(o.reply, None, o.result)

\* the oracle call raises: except Exception as e: ... return None
ProcessChunkFail ==
    /\ pc = "process"
    /\ ci < Len(indexed_chunks)
    /\ \E e \in OracleErrors : Processed(None, e, None)

\* final_answer = aggregate_results(results, query, fast_model)
CallAggregate ==
    /\ pc = "process"
    /\ ci = Len(indexed_chunks)
    /\ pc' = "aggregate"
    /\ stack' = << NewFrame(results, query) >>
    /\ UNCHANGED << pipeVars, final_answer, last_ret, synth_calls, synth_prompts,
                    last_prompt, exc >>

Next ==
    \/ AutoChunkSeparator \/ AutoChunkMarkdown \/ AutoChunkLines
    \/ AutoChunkChars \/ ChunkByCharsStep \/ ChunkByCharsReturn
    \/ FilterSelect \/ FilterSkip
    \/ ProcessChunkOk \/ ProcessChunkFail \/ CallAggregate
    \/ AggNext

Spec == Init /\ [][Next]_vars


(***************************************************************************)
(* FilterSpec: filter_relevant_chunks called on its own with a chunk list, *)
(* a query and optional explicit keywords.                                 *)
(***************************************************************************)
RelevantChunk == "Security holes in Python."

\* the second chunk holds a stop word of Question ("list") and no keyword
FilterChunkPool == {RelevantChunk, "Cooking recipes list."}

\* query and keywords argument of the calls that are followed
FilterCalls ==
    {[query |-> UserQuery, keywords |-> NoKeywords],
     [query |-> Question,  keywords |-> NoKeywords],
     [query |-> "hi",      keywords |-> << << >> >>],
     [query |-> "",        keywords |-> << << "python" >> >>],
     [query |-> UserQuery, keywords |-> << << "RECIPES" >> >>]}

\* the chunk list of test_filters_by_keywords
ScenarioChunks ==
    << "This chunk talks about security vulnerabilities.",
       "This chunk discusses cooking recipes.",
       "This chunk mentions security best practices." >>

FilterInit ==
    /\ pc = "filter_input"
    /\ \E call \in FilterCalls :
           query = call.query /\ keywords = call.keywords
    /\ content = "" /\ chunk_size = 0 /\ filter_chunks = TRUE
    /\ overlap = DefaultOverlap /\ chunker = NoChunker /\ file = NoFile /\ reads = << >>
    /\ archive = << >> /\ extracted = << >>
    /\ chunks = << >> /\ strategy = None /\ start = 0
    /\ indexed_chunks = << >> /\ ci = 0 /\ results = << >>
    /\ stack = << >> /\ final_answer = None /\ outcomes = << >>
    /\ last_ret = NoRet /\ synth_calls = 0 /\ synth_prompts = << >> /\ last_prompt = NoPrompt
    /\ exc = None

\* the caller's chunk list grows by one chunk
FilterAddChunk ==
    /\ pc = "filter_input" /\ Len(chunks) < MaxFilterChunks
    /\ \E c \in FilterChunkPool :
           /\ c = RelevantChunk =>
                  Cardinality({k \in 1..Len(chunks) : chunks[k] = c}) < MaxRelevant
           /\ chunks' = Append(chunks, c)
    /\ UNCHANGED << pc, content, query, chunk_size, overlap, chunker, file, reads, archive, extracted,
                    filter_chunks, keywords,
                    strategy, start, indexed_chunks, ci, results, outcomes,
                    last_prompt, aggVars >>

\* the caller's chunk list is the one of test_filters_by_keywords
FilterScenarioChunks ==
    /\ pc = "filter_input" /\ chunks = << >>
    /\ chunks' = ScenarioChunks
    /\ UNCHANGED << pc, content, query, chunk_size, overlap, chunker, file,
                    reads, archive, extracted, filter_chunks, keywords,
                    strategy, start, indexed_chunks, ci, results, outcomes,
                    last_prompt, aggVars >>

\* filter_relevant_chunks(chunks, query, keywords)
FilterCall ==
    /\ pc = "filter_input"
    /\ indexed_chunks' = FilterRelevantChunks(chunks, query, keywords)
    /\ pc' = "filter_done"
    /\ UNCHANGED << content, query, chunk_size, overlap, chunker, file, reads, archive, extracted,
                    filter_chunks, keywords, chunks,
                    strategy, start, ci, results, outcomes, last_prompt,
                    aggVars >>

FilterNext == FilterAddChunk \/ FilterScenarioChunks \/ FilterCall

FilterSpec == FilterInit /\ [][FilterNext]_vars


(***************************************************************************)
(* ChunkSpec: the four chunkers called on their own (each is independently *)
(* invocable), chunk_by_chars with any chunk_size >= 1 and overlap >= 0.   *)
(***************************************************************************)
\* texts whose characters all differ, so that every position is recognisable
Alphabet == "abcdefghijklmnopqrstuvwxyz"

PlainText(n) == SubSeq(Alphabet, 1, n)

LineTexts ==
    {"", "\n", "line1", "line1\nline2\nline3", "a\nb\n", "a\n\nb\nc\nd",
     "l0\nl1\nl2\nl3\nl4\nl5\nl6"}

SeparatorTexts ==
    {[content |-> "part1\n---\npart2\n---\npart3", separator |-> "\n---\n"],
     [content |-> "part1\n---\n\n---\npart2",      separator |-> "\n---\n"],
     [content |-> "a|||b|||c",                     separator |-> "|||"],
     [content |-> " one \n---\n two\n",            separator |-> "\n---"],
     [content |-> "no separator here",             separator |-> "\n---\n"],
     [content |-> "",                              separator |-> "\n---\n"],
     [content |-> "\n---\n \n---\n\n---\n\t",       separator |-> "\n---\n"]}

HeaderTexts ==
    {"# Header 1\ncontent1\n# Header 2\ncontent2",
     "no regex match here",
     "intro\n\n## A\ntext \n### deeper\n## B\n",
     ""}

\* contents split at a pattern without metacharacters
RegexTexts ==
    {[content |-> "no regex match here",     pattern |-> "ZZZZZ"],
     [content |-> "  padded, no match \n",   pattern |-> "ZZZZZ"],
     [content |-> " \n\t ",                  pattern |-> "ZZZZZ"],
     [content |-> "",                        pattern |-> "ZZZZZ"],
     [content |-> "one\n\ntwo \n\n\n\n \n\nthree\n", pattern |-> "\n\n"],
     [content |-> "\n\n \n\n\n\n\t",        pattern |-> "\n\n"]}

\* the calls that are followed
ChunkCalls ==
    {[fn |-> "chunk_by_chars", content |-> PlainText(n), chunk_size |-> c,
      overlap |-> o] :
         n \in 0..MaxContent, c \in 1..MaxChunkSize, o \in 0..MaxOverlapArg}
    \cup {[fn |-> "chunk_by_lines", content |-> t, lines_per_chunk |-> n] :
             t \in LineTexts, n \in 1..MaxLinesPerChunk}
    \cup {[fn |-> "chunk_by_separator", content |-> t.content,
           separator |-> t.separator] : t \in SeparatorTexts}
    \cup {[fn |-> "chunk_by_regex", content |-> t, pattern |-> HeaderPattern] :
             t \in HeaderTexts}
    \cup {[fn |-> "chunk_by_regex", content |-> t.content,
           pattern |-> t.pattern] : t \in RegexTexts}

ChunkInit ==
    /\ pc = "chunk_input"
    /\ \E c \in ChunkCalls :
           /\ chunker = c
           /\ content = c.content
           /\ chunk_size = IF c.fn = "chunk_by_chars" THEN c.chunk_size ELSE 0
           /\ overlap = IF c.fn = "chunk_by_chars" THEN c.overlap
                        ELSE DefaultOverlap
    /\ file = NoFile /\ reads = << >>
    /\ archive = << >> /\ extracted = << >>
    /\ query = "" /\ filter_chunks = FALSE /\ keywords = NoKeywords
    /\ chunks = << >> /\ strategy = None /\ start = 0
    /\ indexed_chunks = << >> /\ ci = 0 /\ results = << >>
    /\ stack = << >> /\ final_answer = None /\ outcomes = << >>
    /\ last_ret = NoRet /\ synth_calls = 0 /\ synth_prompts = << >> /\ last_prompt = NoPrompt
    /\ exc = None

\* a chunker that is a single expression returns cs
ChunkerReturn(cs) ==
    /\ chunks' = cs
    /\ pc' = "chunk_done"
    /\ UNCHANGED << content, query, chunk_size, overlap, chunker, file, reads, archive, extracted,
                    filter_chunks, keywords, strategy, start, indexed_chunks,
                    ci, results, outcomes, last_prompt, aggVars >>

\* chunk_by_chars(content, chunk_size, overlap) is entered
CharsCall ==
    /\ pc = "chunk_input" /\ chunker.fn = "chunk_by_chars"
    /\ pc' = "chunking"
    /\ chunks' = << >>
    /\ start' = 0
    /\ UNCHANGED << content, query, chunk_size, overlap, chunker, file, reads, archive, extracted,
                    filter_chunks, keywords, strategy, indexed_chunks, ci,
                    results, outcomes, last_prompt, aggVars >>

\* the loop of chunk_by_chars ends: return chunks
CharsReturn ==
    /\ pc = "chunking" /\ chunker.fn # None
    /\ start >= Len(content)
    /\ ChunkerReturn(chunks)

\* chunk_by_lines(content, lines_per_chunk)
LinesCall ==
    /\ pc = "chunk_input" /\ chunker.fn = "chunk_by_lines"
    /\ ChunkerReturn(ChunkByLines(content, chunker.lines_per_chunk))

\* chunk_by_separator(content, separator)
SeparatorCall ==
    /\ pc = "chunk_input" /\ chunker.fn = "chunk_by_separator"
    /\ ChunkerReturn(ChunkBySeparator(content, chunker.separator))

\* chunk_by_regex(content, pattern)
RegexCall ==
    /\ pc = "chunk_input" /\ chunker.fn = "chunk_by_regex"
    /\ ChunkerReturn(ChunkByRegex(content, chunker.pattern))

ChunkNext ==
    \/ CharsCall \/ ChunkByCharsStep \/ CharsReturn
    \/ LinesCall \/ SeparatorCall \/ RegexCall

ChunkSpec == ChunkInit /\ [][ChunkNext]_vars


(***************************************************************************)
(* AutoSpec: auto_chunk called on its own with a content and a target      *)
(* chunk size.                                                             *)
(***************************************************************************)
\* s separated documents, then h sections under level-2 headers, then n
\* short lines
StructuredDoc(s, h, n) ==
    Rep("p\n---\n", s) \o Rep("## h\nbody\n", h) \o Rep("ab\n", n)

\* eleven sections of which the last, trimmed, is 292 characters long
LongSectionDoc == Rep("## h\nbodyy\n", 10) \o "## h\n" \o Rep("ab\n", 96)

\* the calls that are followed: counts on either side of each threshold of
\* auto_chunk, and the contents that sit exactly on one
AutoInputs ==
    {[content |-> StructuredDoc(s, h, n), target |-> t] :
         s \in {0, 5, 6}, h \in {0, 10, 11}, n \in {0, 80, 101},
         t \in {5, 30, 600}}
    \cup {[content |-> StructuredDoc(6, 0, 0), target |-> 3],
          [content |-> LongSectionDoc,         target |-> 146],
          [content |-> LongSectionDoc,         target |-> 147],
          [content |-> Rep("ab\n", 100),       target |-> 600],
          [content |-> Rep("ab\n", 100) \o "\n", target |-> 600],
          [content |-> Rep("a", 700),          target |-> 600],
          [content |-> Rep("a", 100000),       target |-> 40000]}

AutoInit ==
    /\ pc = "loaded"
    /\ \E inp \in AutoInputs :
           content = inp.content /\ chunk_size = inp.target
    /\ overlap = DefaultOverlap /\ chunker = NoChunker /\ file = NoFile /\ reads = << >>
    /\ archive = << >> /\ extracted = << >>
    /\ query = "" /\ filter_chunks = FALSE /\ keywords = NoKeywords
    /\ chunks = << >> /\ strategy = None /\ start = 0
    /\ indexed_chunks = << >> /\ ci = 0 /\ results = << >>
    /\ stack = << >> /\ final_answer = None /\ outcomes = << >>
    /\ last_ret = NoRet /\ synth_calls = 0 /\ synth_prompts = << >> /\ last_prompt = NoPrompt
    /\ exc = None

AutoNext ==
    \/ AutoChunkSeparator \/ AutoChunkMarkdown \/ AutoChunkLines
    \/ AutoChunkChars \/ ChunkByCharsStep \/ ChunkByCharsReturn

AutoSpec == AutoInit /\ [][AutoNext]_vars


(***************************************************************************)
(* LoadSpec: rlm_process from its call, step 1 (loading the context file)  *)
(* included.  The file system and the converters are external: a file is   *)
(* described by what each way of reading it gives.                         *)
(***************************************************************************)
\* if file_type in ('pdf', 'docx', 'html', 'archive'):
ConvertedTypes == {"pdf", "docx", "html", "archive"}

\* a context file: its extension, what detect_file_type says, whether
\* file_converter could be imported, what convert_to_text returns (None: it
\* raises convert_error), what open(...).read() with errors='replace'
\* returns (None: it raises open_error), and the output of pdftotext (None:
\* a non-zero return code)
ContextFile(ext, type, conv, text, cerr, raw, oerr, pdf) ==
    [ext |-> ext, type |-> type, converter |-> conv,
     converted |-> text, convert_error |-> cerr,
     raw |-> raw, open_error |-> oerr, pdftotext |-> pdf]

\* a readable text file holding text
TextFile(text) ==
    ContextFile(".txt", "text", TRUE, text, None, text, None, None)

\* the bytes of a PDF read as UTF-8 with errors='replace'
RawPdf == "%PDF-1.4 ??? obj stream ???"

RawZip == "PK?? security.txt ???"

PageText == "--- Page 1 ---\nSecurity review of the login form."

\* the files that are followed beside the readable text files
SpecialFiles ==
    {ContextFile(".pdf", "pdf", TRUE, PageText, None, RawPdf, None, PageText),
     ContextFile(".pdf", "pdf", TRUE, None, "ValueError", RawPdf, None, None),
     ContextFile(".zip", "archive", TRUE, None, "BadZipFile", RawZip, None, None),
     ContextFile(".pdf", "pdf", TRUE, None, "FileNotFoundError", None,
                 "FileNotFoundError", None),
     ContextFile(".txt", "text", TRUE, None, "FileNotFoundError", None,
                 "FileNotFoundError", None),
     ContextFile(".json", "json", TRUE, None, "JSONDecodeError",
                 "{security: ", None, None),
     ContextFile(".bin", "binary", TRUE, None, "ValueError", "???", None, None),
     ContextFile(".pdf", "pdf", FALSE, None, None, RawPdf, None, PageText),
     ContextFile(".pdf", "pdf", FALSE, None, None, RawPdf, None, None),
     ContextFile(".docx", "docx", FALSE, None, None, RawZip, None, None),
     ContextFile(".txt", "text", FALSE, None, None, "Security notes.", None, None),
     ContextFile(".txt", "text", FALSE, None, None, None, "FileNotFoundError",
                 None)}

\* the calls of rlm_process that are followed
LoadInputs ==
    {[file |-> TextFile(p.content), chunk_size |-> p.chunk_size,
      query |-> p.query, filter |-> p.filter] : p \in PipelineInputs}
    \cup {[file |-> f, chunk_size |-> 600, query |-> UserQuery,
           filter |-> TRUE] : f \in SpecialFiles}

LoadInit ==
    /\ pc = "load"
    /\ \E inp \in LoadInputs :
           /\ file = inp.file /\ chunk_size = inp.chunk_size
           /\ query = inp.query /\ filter_chunks = inp.filter
    /\ content = None /\ reads = << >>
    /\ archive = << >> /\ extracted = << >>
    /\ overlap = DefaultOverlap /\ chunker = NoChunker
    /\ keywords = NoKeywords
    /\ chunks = << >> /\ strategy = None /\ start = 0
    /\ indexed_chunks = << >> /\ ci = 0 /\ results = << >>
    /\ stack = << >> /\ final_answer = None /\ outcomes = << >>
    /\ last_ret = NoRet /\ synth_calls = 0 /\ synth_prompts = << >> /\ last_prompt = NoPrompt
    /\ exc = None

loadFrame == << archive, extracted, file, query, chunk_size, overlap, chunker, filter_chunks,
                keywords, chunks, strategy, start, indexed_chunks, ci,
                results, stack, final_answer, outcomes, last_ret,
                synth_calls, synth_prompts, last_prompt >>

\* step 1 ends with content bound to text, after the reads tried
LoadDone(text, tried) ==
    /\ content' = text
    /\ reads' = tried
    /\ pc' = "loaded"
    /\ UNCHANGED << loadFrame, exc >>

\* step 1 ends with exception e leaving rlm_process
LoadRaise(e, tried) ==
    /\ exc' = e
    /\ reads' = tried
    /\ pc' = "raised"
    /\ UNCHANGED << loadFrame, content >>

\* try: content = convert_to_text(context_file)
LoadConvert ==
    /\ pc = "load" /\ file.converter /\ file.type \in ConvertedTypes
    /\ file.converted # None
    /\ LoadDone(file.converted, << "convert_to_text" >>)

\* except Exception: ... trying direct read: content = f.read()
LoadFallback ==
    /\ pc = "load" /\ file.converter /\ file.type \in ConvertedTypes
    /\ file.converted = None /\ file.raw # None
    /\ LoadDone(file.raw, << "convert_to_text", "open" >>)

\* the direct read in the except block raises too
LoadFallbackFail ==
    /\ pc = "load" /\ file.converter /\ file.type \in ConvertedTypes
    /\ file.converted = None /\ file.raw = None
    /\ LoadRaise(file.open_error, << "convert_to_text", "open" >>)

\* else: content = convert_to_text(context_file)
LoadText ==
    /\ pc = "load" /\ file.converter /\ file.type \notin ConvertedTypes
    /\ file.converted # None
    /\ LoadDone(file.converted, << "convert_to_text" >>)

\* ... which raises
LoadTextFail ==
    /\ pc = "load" /\ file.converter /\ file.type \notin ConvertedTypes
    /\ file.converted = None
    /\ LoadRaise(file.convert_error, << "convert_to_text" >>)

\* no file_converter, '.pdf': pdftotext returns 0
LoadPdftotext ==
    /\ pc = "load" /\ ~file.converter /\ file.ext = ".pdf"
    /\ file.pdftotext # None
    /\ LoadDone(file.pdftotext, << "pdftotext" >>)

\* raise RuntimeError("Cannot read PDF. ...")
LoadPdftotextFail ==
    /\ pc = "load" /\ ~file.converter /\ file.ext = ".pdf"
    /\ file.pdftotext = None
    /\ LoadRaise("RuntimeError", << "pdftotext" >>)

\* raise RuntimeError("Cannot read .docx. ...")
LoadDocxUnsupported ==
    /\ pc = "load" /\ ~file.converter /\ file.ext = ".docx"
    /\ LoadRaise("RuntimeError", << >>)

\* no file_converter, any other extension: content = f.read()
LoadPlain ==
    /\ pc = "load" /\ ~file.converter /\ file.ext \notin {".pdf", ".docx"}
    /\ file.raw # None
    /\ LoadDone(file.raw, << "open" >>)

\* ... which raises
LoadPlainFail ==
    /\ pc = "load" /\ ~file.converter /\ file.ext \notin {".pdf", ".docx"}
    /\ file.raw = None
    /\ LoadRaise(file.open_error, << "open" >>)

LoadNext ==
    \/ LoadConvert \/ LoadFallback \/ LoadFallbackFail \/ LoadText
    \/ LoadTextFail \/ LoadPdftotext \/ LoadPdftotextFail
    \/ LoadDocxUnsupported \/ LoadPlain \/ LoadPlainFail

LoadSpecNext == LoadNext \/ Next

LoadSpec == LoadInit /\ [][LoadSpecNext]_vars


(***************************************************************************)
(* ArchiveSpec: the tar branch of extract_archive of file_converter.py.    *)
(* A member is its name, its type and its link target; the destination is  *)
(* a fresh temporary directory, so no path below it is a symbolic link      *)
(* when the members are checked (all of them before any is extracted).      *)
(***************************************************************************)
\* temp_dir = tempfile.mkdtemp()
DestDir == "/tmp/x"

\* s.startswith(prefix)
StartsWith(s, prefix) ==
    Len(s) >= Len(prefix) /\ SubSeq(s, 1, Len(prefix)) = prefix

\* os.path.join(a, b)
PathJoin(a, b) ==
    IF StartsWith(b, "/") THEN b
    ELSE IF a = "" \/ Char(a, Len(a)) = "/" THEN a \o b
    ELSE a \o "/" \o b

\* the components of an absolute path with '', '.' and '..' resolved
RECURSIVE Resolved(_)
Resolved(comps) ==
    IF comps = << >> THEN << >>
    ELSE LET before == Resolved(SubSeq(comps, 1, Len(comps) - 1))
             c      == comps[Len(comps)]
         IN  IF c \in {"", "."} THEN before
             ELSE IF c = ".."
                  THEN IF before = << >> THEN << >>
                       ELSE SubSeq(before, 1, Len(before) - 1)
             ELSE Append(before, c)

\* os.path.realpath(p) for an absolute p none of whose components is a link
RealPath(p) == "/" \o Join(Resolved(Split(p, "/")), "/")

\* _is_safe_tar_member
IsSafeTarMember(member, dest_dir) ==
    LET member_path == RealPath(PathJoin(dest_dir, member.name))
    IN  \/ StartsWith(member_path, RealPath(dest_dir) \o "/")
        \/ member_path = RealPath(dest_dir)

\* tarfile.TarInfo: name, type (REGTYPE, SYMTYPE, LNKTYPE) and linkname
TarMember(name, type, linkname) ==
    [name |-> name, type |-> type, linkname |-> linkname]

\* the members an archive may hold
MemberPool ==
    {TarMember("readme.txt", "REGTYPE", ""),
     TarMember("src/main.py", "REGTYPE", ""),
     TarMember("a/../b", "REGTYPE", ""),
     TarMember("../x/readme.txt", "REGTYPE", ""),
     TarMember("../xy/readme.txt", "REGTYPE", ""),
     TarMember("../../../etc/passwd", "REGTYPE", ""),
     TarMember("foo/../../etc/passwd", "REGTYPE", ""),
     TarMember("/etc/passwd", "REGTYPE", ""),
     TarMember("link", "SYMTYPE", "/etc/passwd"),
     TarMember("link", "LNKTYPE", "/etc/passwd")}

ArchiveInit ==
    /\ pc = "archive_input"
    /\ content = "" /\ query = "" /\ chunk_size = 0
    /\ overlap = DefaultOverlap /\ chunker = NoChunker
    /\ file = NoFile /\ reads = << >>
    /\ archive = << >> /\ extracted = << >>
    /\ filter_chunks = FALSE /\ keywords = NoKeywords
    /\ chunks = << >> /\ strategy = None /\ start = 0
    /\ indexed_chunks = << >> /\ ci = 0 /\ results = << >>
    /\ stack = << >> /\ final_answer = None /\ outcomes = << >>
    /\ last_ret = NoRet /\ synth_calls = 0 /\ synth_prompts = << >> /\ last_prompt = NoPrompt
    /\ exc = None

archFrame == << content, query, chunk_size, overlap, chunker, file, reads,
                filter_chunks, keywords, chunks, strategy, start,
                indexed_chunks, ci, results, stack, final_answer, outcomes,
                last_ret, synth_calls, synth_prompts, last_prompt, exc >>

\* the archive holds one more member
ArchiveAddMember ==
    /\ pc = "archive_input" /\ Len(archive) < MaxMembers
    /\ \E member \in MemberPool : archive' = Append(archive, member)
    /\ UNCHANGED << pc, extracted, archFrame >>

\* safe_members = [m for m in tf.getmembers() if _is_safe_tar_member(m, temp_dir)]
\* tf.extractall(temp_dir, members=safe_members)
ArchiveExtract ==
    /\ pc = "archive_input"
    /\ extracted' = SelectSeq(archive, LAMBDA m : IsSafeTarMember(m, DestDir))
    /\ pc' = "extracted"
    /\ UNCHANGED << archive, archFrame >>

ArchiveNext == ArchiveAddMember \/ ArchiveExtract

ArchiveSpec == ArchiveInit /\ [][ArchiveNext]_vars


(***************************************************************************)
(* What the two scaled-down limits stand for: the followed part of the     *)
(* chunk_by_chars loop ends early only in a run whose loop cannot end, and  *)
(* the recursion limit is reached only by a one-pair list above the         *)
(* threshold, which every further call receives unchanged.                  *)
(***************************************************************************)
LoopCutOnlyWhenEndless ==
    (pc = "chunking" /\ start < Len(content) /\ Len(chunks) >= MaxChunkSteps)
        => chunk_size <= overlap

LimitOnlyWhenEndless ==
    exc = "RecursionError" =>
        /\ Len(Top.results) = 1
        /\ RightHalf(Top.results) = Top.results
        /\ NeedsSplit(Top.combined)


(***************************************************************************)
(* Claims about aggregate_results.                                         *)
(***************************************************************************)

\* C1: aggregate_results terminates for every list of pairs: every
\* recursive call receives strictly fewer pairs than its caller, so the
\* recursion never runs into the recursion limit.
C1_RecursionShrinks ==
    /\ \A k \in 2..Len(stack) :
           Len(stack[k].results) < Len(stack[k - 1].results)
    /\ exc # "RecursionError"

\* C2: whenever an invocation of aggregate_results sends its synthesis
\* prompt to the oracle, the combined findings text embedded in that prompt
\* is at most 50,000 characters long.
C2_SynthesisBounded ==
    /\ last_prompt.kind = "synthesis" => Len(last_prompt.body) <= 50000
    /\ \A k \in 1..Len(stack) :
           stack[k].pc = "synth" => Len(stack[k].combined) <= 50000

\* C5: when the synthesis oracle call fails with error e, aggregate_results
\* returns (does not raise) the text "Error during aggregation: e", followed
\* by "Raw findings:" and the first min(5000, len) characters of the combined
\* findings, and nothing more.
C5_DegradedAnswer ==
    last_ret.error # None =>
        LET head == "Error during aggregation: " \o last_ret.error
                        \o "\n\nRaw findings:\n"
            raw  == SubSeq(last_ret.value, Len(head) + 1, Len(last_ret.value))
        IN  /\ exc = None
            /\ Contains(last_ret.value, last_ret.error)
            /\ SubSeq(last_ret.value, 1, Len(head)) = head
            /\ Len(raw) <= 5000
            /\ Len(raw) = Min(5000, Len(last_ret.combined))
            /\ raw = SubSeq(last_ret.combined, 1, Len(raw))

\* C5 witness: a synthesis call failed on findings longer than 5,000
\* characters, so the prefix really was cut.
C5_Witness ==
    /\ last_ret.error # None
    /\ Len(last_ret.combined) > 5000
    /\ Len(last_ret.value) < Len(last_ret.combined)

\* C7: an invocation recurses only when its combined labelled text is
\* strictly longer than 50,000 characters; a non-empty list at or below the
\* threshold costs exactly one oracle call and no recursive call.
C7_RecursesOnlyAboveThreshold ==
    /\ \A k \in 1..Len(stack) :
           stack[k].recursed > 0 => Len(Combined(stack[k].results)) > 50000
    /\ last_ret.depth > 0 =>
           LET labelled == Len(Combined(last_ret.results))
           IN  /\ last_ret.recursed > 0 => labelled > 50000
               /\ (last_ret.results # << >> /\ labelled <= 50000) =>
                      (last_ret.calls = 1 /\ last_ret.recursed = 0)

\* C7 witness: a list whose labelled text is exactly 50,000 characters long
\* was answered with one oracle call and no recursion.
C7_Witness ==
    /\ last_ret.depth > 0
    /\ Len(Combined(last_ret.results)) = 50000
    /\ last_ret.calls = 1 /\ last_ret.recursed = 0

(***************************************************************************)
(* Claims about rlm_process.                                               *)
(***************************************************************************)

\* C3: once the content is loaded rlm_process returns an answer: it never
\* raises, and its chunking loop never fails to advance (an iteration of
\* chunk_by_chars that does not move start forward repeats for ever).
C3_AlwaysReturns ==
    /\ [](exc = None)
    /\ [][(pc = "chunking" /\ pc' = "chunking") => start' > start]_vars

\* the results the loop of rlm_process must have collected from the first
\* n outcomes: the present, non-empty extractions, in order
RECURSIVE C4_Kept(_)
C4_Kept(n) ==
    IF n = 0 THEN << >>
    ELSE IF outcomes[n].error = None /\ outcomes[n].result \notin {None, ""}
         THEN Append(C4_Kept(n - 1), << outcomes[n].index, outcomes[n].result >>)
         ELSE C4_Kept(n - 1)

\* what process_chunk and the loop of rlm_process do with a failing oracle
\* call: the chunk's result is absent, the error does not end the run, the
\* chunks after it are processed too, and the aggregator is given exactly the
\* extractions of the chunks that succeeded
ChunkErrorContained ==
    /\ exc \notin OracleErrors
    /\ \A k \in 1..Len(outcomes) :
           outcomes[k].error # None =>
               /\ outcomes[k].result = None
               /\ \A j \in 1..Len(results) : results[j][1] # outcomes[k].index
    /\ pc = "process" => Len(outcomes) = ci
    /\ pc \in {"aggregate", "returned", "raised"} =>
           /\ Len(outcomes) = Len(indexed_chunks)
           /\ \A k \in 1..Len(outcomes) :
                  outcomes[k].index = indexed_chunks[k][1]
           /\ results = C4_Kept(Len(outcomes))
    /\ stack # << >> => stack[1].results = results /\ stack[1].query = query
    /\ (pc = "returned" /\ last_ret.depth = 1) => last_ret.results = results

\* a chunk's call failed, a later chunk gave an extraction, and the pipeline
\* returned the oracle's synthesis of it
ChunkErrorSurvived ==
    /\ pc = "returned"
    /\ \E k, j \in 1..Len(outcomes) :
           /\ k < j
           /\ outcomes[k].error # None
           /\ outcomes[j].result \notin {None, ""}
    /\ final_answer \in SynthReplies
    /\ Len(results) = 1

\* C4: a failing oracle call in process_chunk gives the absent result and is
\* not propagated; the remaining chunks are still processed, and the pipeline
\* still returns (it does not raise) a final answer built from the chunks
\* that succeeded.
C4_ChunkErrorContained ==
    /\ ChunkErrorContained
    /\ (\E k \in 1..Len(outcomes) : outcomes[k].error # None) => exc = None

\* C6: aggregate_results on an empty list returns the fixed sentinel answer
\* and makes no oracle call; in the pipeline that is the final answer
\* whenever every processed chunk gave no extraction.
C6_EmptySentinel ==
    /\ (last_ret.depth > 0 /\ last_ret.results = << >>) =>
           /\ last_ret.value =
                  "No relevant information found in the provided context for this query."
           /\ last_ret.calls = 0
           /\ last_ret.recursed = 0
    /\ (pc = "returned"
            /\ \A k \in 1..Len(outcomes) : outcomes[k].result \in {None, ""}) =>
           /\ final_answer =
                  "No relevant information found in the provided context for this query."
           /\ synth_calls = 0

\* C6 witness: two chunks were processed, neither gave an extraction, and
\* the pipeline returned the sentinel.
C6_Witness ==
    /\ pc = "returned"
    /\ Len(outcomes) >= 2
    /\ \A k \in 1..Len(outcomes) : outcomes[k].result \in {None, ""}
    /\ final_answer = NoInfoAnswer
    /\ synth_calls = 0

(***************************************************************************)
(* Claims about filter_relevant_chunks.                                    *)
(***************************************************************************)

\* the keywords in force: the explicit ones when given and non-empty, else
\* the words of four or more characters of the lower-cased query that are
\* not stop words
C8_Keywords ==
    IF keywords # << >> /\ keywords[1] # << >> THEN keywords[1]
    ELSE LET words == WordsOfFour(Lower(query))
         IN  SelectSeq(words, LAMBDA w : w \notin
                 {"what", "when", "where", "which", "about", "this", "that",
                  "with", "from", "have", "does", "find", "list", "show"})

\* the 0-based indices of the chunks that contain a keyword, ignoring case
C8_Matching ==
    LET kw == C8_Keywords
        lw == [w \in 1..Len(kw) |-> Lower(kw[w])]
    IN  {k - 1 : k \in {n \in 1..Len(chunks) :
            \E w \in 1..Len(lw) : Contains(Lower(chunks[n]), lw[w])}}

C8_Indices == {indexed_chunks[k][1] : k \in 1..Len(indexed_chunks)}

\* C8: the selection is never smaller than 10% of the chunks: with fewer
\* than 10% of the chunks matching a keyword every index 0..n-1 is returned,
\* otherwise exactly the matching chunks are.
C8_TenPercentFloor ==
    pc = "filter_done" =>
        /\ 10 * Len(indexed_chunks) >= Len(chunks)
        /\ Cardinality(C8_Indices) = Len(indexed_chunks)
        /\ LET m == C8_Matching
           IN  IF 10 * Cardinality(m) < Len(chunks)
               THEN C8_Indices = 0..(Len(chunks) - 1)
               ELSE C8_Indices = m

\* C8 witness: one chunk of eleven or more matches (under 10%), and all of
\* them are returned.
C8_Witness ==
    /\ pc = "filter_done"
    /\ Len(chunks) >= 11
    /\ Cardinality(C8_Matching) = 1
    /\ Len(indexed_chunks) = Len(chunks)

\* C9: every returned pair (i, c) has c = chunks[i], i being the position in
\* the input sequence, and the returned indices are strictly increasing.
C9_OriginalIndices ==
    pc = "filter_done" =>
        /\ \A k \in 1..Len(indexed_chunks) :
               /\ indexed_chunks[k][1] \in 0..(Len(chunks) - 1)
               /\ indexed_chunks[k][2] = chunks[indexed_chunks[k][1] + 1]
        /\ \A k \in 1..(Len(indexed_chunks) - 1) :
               indexed_chunks[k][1] < indexed_chunks[k + 1][1]
        /\ Len(indexed_chunks) < Len(chunks) =>
               LET m == C8_Matching
               IN  \A k \in 1..Len(indexed_chunks) : indexed_chunks[k][1] \in m

\* C9 witness: a proper subset was selected whose first chunk is not the
\* first input chunk, so position in the subset and original index differ.
C9_Witness ==
    /\ pc = "filter_done"
    /\ indexed_chunks # << >>
    /\ Len(indexed_chunks) < Len(chunks)
    /\ indexed_chunks[1][1] > 0

\* C10: with no explicit keywords and a query that yields no keyword, every
\* input chunk is returned with its original index.
C10_NoKeywordsReturnsAll ==
    (pc = "filter_done" /\ keywords = NoKeywords /\ C8_Keywords = << >>) =>
        indexed_chunks = [k \in 1..Len(chunks) |-> << k - 1, chunks[k] >>]

\* C10 witness: the query holds only stop words and short words, one of its
\* stop words occurs in some chunks and not in others, and all the chunks are
\* returned.
C10_Witness ==
    /\ pc = "filter_done"
    /\ keywords = NoKeywords /\ C8_Keywords = << >>
    /\ query # ""
    /\ \E k, j \in 1..Len(chunks) :
           /\ Contains(Lower(chunks[k]), "list")
           /\ ~Contains(Lower(chunks[j]), "list")
    /\ Contains(Lower(query), "list")
    /\ Len(indexed_chunks) = Len(chunks)

(***************************************************************************)
(* Claims about the chunkers.                                              *)
(***************************************************************************)

\* C11 (as stated): for any content whose length is at most chunk_size,
\* length 0 included, chunk_by_chars returns exactly one chunk, equal to the
\* content.
C11_AlwaysOneChunk ==
    (pc = "chunk_done" /\ chunker.fn = "chunk_by_chars"
         /\ Len(content) <= chunk_size) =>
        chunks = << content >>

\* C11 (amended): for any non-empty content whose length is at most
\* chunk_size, chunk_by_chars returns, after one iteration of its loop,
\* exactly one chunk, equal to the content, whatever the overlap; for empty
\* content it returns no chunk at all.
C11_FitsInOneChunk ==
    (chunker.fn = "chunk_by_chars" /\ Len(content) <= chunk_size) =>
        /\ pc = "chunking" =>
               \/ chunks = << >> /\ start = 0
               \/ chunks = << content >> /\ start >= Len(content)
        /\ pc = "chunk_done" =>
               /\ content # "" => chunks = << content >>
               /\ content = "" => chunks = << >>

\* C11 witness: a content exactly chunk_size long, chunked with a non-zero
\* overlap, came back as one chunk.
C11_Witness ==
    /\ pc = "chunk_done" /\ chunker.fn = "chunk_by_chars"
    /\ Len(content) = chunk_size /\ overlap > 0
    /\ chunks = << content >>

\* ceil(a / b) for b > 0
C12_Ceil(a, b) == (a + b - 1) \div b

\* C12: for content of length L > chunk_size and overlap o with
\* 0 <= o < chunk_size, chunk_by_chars returns exactly
\* ceil((L - o) / (chunk_size - o)) chunks, every chunk but the last is
\* chunk_size long, and each chunk after the first begins with the last o
\* characters of its predecessor.
C12_OverlappingWindows ==
    (chunker.fn = "chunk_by_chars" /\ Len(content) > chunk_size
         /\ overlap < chunk_size) =>
        LET n == C12_Ceil(Len(content) - overlap, chunk_size - overlap)
        IN  /\ pc = "chunking" =>
                   /\ Len(chunks) <= n
                   /\ Len(chunks) = n => start >= Len(content)
            /\ pc = "chunk_done" =>
                   /\ Len(chunks) = n
                   /\ \A k \in 1..(n - 1) : Len(chunks[k]) = chunk_size
                   /\ Len(chunks[n]) <= chunk_size
                   /\ \A k \in 2..n :
                          /\ Len(chunks[k]) >= overlap
                          /\ SubSeq(chunks[k], 1, overlap) =
                                 SubSeq(chunks[k - 1],
                                        Len(chunks[k - 1]) - overlap + 1,
                                        Len(chunks[k - 1]))

\* C12 witness: a call with a non-zero overlap returned at least three
\* chunks, the last of them shorter than chunk_size.
C12_Witness ==
    /\ pc = "chunk_done" /\ chunker.fn = "chunk_by_chars"
    /\ overlap > 0 /\ overlap < chunk_size
    /\ Len(chunks) >= 3
    /\ Len(chunks[Len(chunks)]) < chunk_size

\* C13: chunk_by_chars finishes for every content, every chunk_size >= 1
\* and every overlap >= 0: each iteration of its loop brings start closer to
\* the end of the content (an iteration that does not is followed by the
\* same or a lower start, and the loop never ends).
C13_LoopAdvances ==
    [][(pc = "chunking" /\ pc' = "chunking" /\ chunker.fn = "chunk_by_chars")
           => Len(content) - start' < Len(content) - start]_vars

\* the chunks of chunk_by_chars put back together: the first chunk, then
\* each later chunk without its first ov characters
RECURSIVE C14_Rebuilt(_, _)
C14_Rebuilt(cs, ov) ==
    IF cs = << >> THEN ""
    ELSE IF Len(cs) = 1 THEN cs[1]
    ELSE C14_Rebuilt(SubSeq(cs, 1, Len(cs) - 1), ov)
             \o PySlice(cs[Len(cs)], ov, Len(cs[Len(cs)]))

\* the number of characters of s that are not whitespace
C14_Inked(s) == Cardinality({i \in 1..Len(s) : Char(s, i) \notin Whitespace})

RECURSIVE C14_InkedSum(_)
C14_InkedSum(cs) ==
    IF cs = << >> THEN 0 ELSE C14_Inked(Head(cs)) + C14_InkedSum(Tail(cs))

\* the texts of cs occur in text one after the other, without overlapping,
\* at or after position from
RECURSIVE C14_InOrder(_, _, _)
C14_InOrder(cs, text, from) ==
    IF cs = << >> THEN TRUE
    ELSE LET c == Head(cs)
             P == {q \in from..(Len(text) - Len(c) + 1) :
                      SubSeq(text, q, q + Len(c) - 1) = c}
         IN  /\ P # {}
             /\ C14_InOrder(Tail(cs), text,
                            (CHOOSE q \in P : \A r \in P : q <= r) + Len(c))

C15_Newlines(s) == Cardinality({i \in 1..Len(s) : SubSeq(s, i, i) = "\n"})

\* C15: for lines_per_chunk >= 1, chunk_by_lines returns exactly
\* ceil(line_count / lines_per_chunk) chunks, line_count being the number of
\* newline-separated lines of the content (one more than its newlines; one
\* for empty content, which gives the single chunk ''), and the chunks joined
\* with newlines are the content exactly.
C15_LineGroups ==
    (pc = "chunk_done" /\ chunker.fn = "chunk_by_lines") =>
        LET per        == chunker.lines_per_chunk
            line_count == C15_Newlines(content) + 1
            n          == (line_count + per - 1) \div per
        IN  /\ Len(chunks) = n
            /\ \A k \in 1..(n - 1) : C15_Newlines(chunks[k]) + 1 = per
            /\ C15_Newlines(chunks[n]) + 1 = line_count - (n - 1) * per
            /\ Join(chunks, "\n") = content
            /\ content = "" => chunks = << "" >>

\* C15 witness: chunk_by_lines returned several chunks, the last of them
\* with fewer lines than lines_per_chunk.
C15_Witness ==
    /\ pc = "chunk_done" /\ chunker.fn = "chunk_by_lines"
    /\ Len(chunks) >= 2
    /\ (C15_Newlines(content) + 1) % chunker.lines_per_chunk # 0

(***************************************************************************)
(* Claims about auto_chunk.                                                *)
(***************************************************************************)

\* the sizes of the chunks of cs, added up
RECURSIVE C16_TotalSize(_)
C16_TotalSize(cs) ==
    IF cs = << >> THEN 0 ELSE Len(Head(cs)) + C16_TotalSize(Tail(cs))

\* C16: for unstructured content (here: a content without any newline) of
\* length L and chunk size c, auto_chunk returns strategy character_count
\* and chunks of sizes c, c, ..., only the last one shorter, as
\* character-mode chunking with overlap 0 gives them, so the sizes add up to
\* L; L = 100,000 and c = 40,000 give three chunks of sizes
\* 40000/40000/20000.
C16_ScenarioOne ==
    (pc = "chunked" /\ ~Contains(content, "\n")) =>
        /\ strategy = "character_count"
        /\ \A k \in 1..(Len(chunks) - 1) : Len(chunks[k]) = chunk_size
        /\ chunks # << >> =>
               /\ Len(chunks[Len(chunks)]) <= chunk_size
               /\ Len(chunks[Len(chunks)]) > 0
        /\ C16_TotalSize(chunks) = Len(content)
        /\ (Len(content) = 100000 /\ chunk_size = 40000) =>
               [k \in 1..Len(chunks) |-> Len(chunks[k])] =
                   << 40000, 40000, 20000 >>

\* C17: rule 1 has top priority: whenever the content has more than 5
\* document-separator occurrences and content length / separator count is
\* less than twice the target chunk size, auto_chunk returns strategy
\* document_separator (with the chunks of the separator split), however many
\* markdown headers or lines the content has.
C17_SeparatorRuleFirst ==
    (pc # "loaded" /\ DocSeps(content) > 5
         /\ Len(content) < 2 * chunk_size * DocSeps(content)) =>
        /\ pc = "chunked"
        /\ strategy = "document_separator"
        /\ chunks = ChunkBySeparator(content, "\n---")

\* C17 witness: a content with more than 10 markdown headers and more than
\* 100 short lines, and with 6 separators, was chunked by separator.
C17_Witness ==
    /\ pc = "chunked" /\ strategy = "document_separator"
    /\ MdHeaders(content) > 10
    /\ \A k \in 1..Len(ChunkByHeaders(content)) :
           Len(ChunkByHeaders(content)[k]) < 2 * chunk_size
    /\ TotalLines(content) > 100
    /\ Len(chunks) >= 6

\* C18: when rule 1 does not apply, auto_chunk returns strategy
\* markdown_headers exactly when the content has more than 10 markdown
\* headers and splitting at level-1/level-2 headers yields no chunk larger
\* than twice the target chunk size (a largest chunk of exactly twice the
\* target still qualifies); otherwise it goes on to the later rules.
C18_MarkdownRule ==
    (pc # "loaded"
         /\ ~(DocSeps(content) > 5
                  /\ Len(content) < 2 * chunk_size * DocSeps(content))) =>
        LET sections == ChunkByHeaders(content)
        IN  (strategy = "markdown_headers") <=>
                /\ MdHeaders(content) > 10
                /\ \A k \in 1..Len(sections) :
                       Len(sections[k]) <= 2 * chunk_size

\* C19: when rules 1 and 2 do not apply, auto_chunk returns strategy
\* line_count exactly when the content has more than 100 lines, counted as
\* line-mode chunking counts them (newline-separated segments: one more than
\* the newlines), and its average line length is under 200 characters; in
\* every remaining case it takes the character_count fallback.
C19_LineRule ==
    (pc # "loaded" /\ ~UseSeparator(content, chunk_size)
         /\ ~UseMarkdown(content, chunk_size)) =>
        LET line_count == Len(Split(content, "\n"))
        IN  IF line_count > 100 /\ Len(content) < 200 * line_count
            THEN pc = "chunked" /\ strategy = "line_count"
            ELSE \/ pc = "chunking"
                 \/ pc = "chunked" /\ strategy = "character_count"

(***************************************************************************)
(* Claims about the processing loop of rlm_process.                        *)
(***************************************************************************)

\* C20: in rlm_process the chunk processor is invoked exactly once for each
\* retained chunk and for no other chunk, one at a time, in increasing
\* original-index order: the k-th invocation is for the k-th retained chunk,
\* and when the loop is over there have been as many invocations as retained
\* chunks.  Each invocation is given the chunk's original index and the
\* number of chunks before filtering.
C20_OncePerRetainedChunk ==
    /\ Len(outcomes) <= Len(indexed_chunks)
    /\ pc = "process" => Len(outcomes) = ci
    /\ pc \in {"aggregate", "returned", "raised"} =>
           Len(outcomes) = Len(indexed_chunks)
    /\ \A k \in 1..Len(outcomes) : outcomes[k].index = indexed_chunks[k][1]
    /\ \A j, k \in 1..Len(outcomes) :
           j < k => outcomes[j].index < outcomes[k].index
    /\ last_prompt.kind = "chunk" =>
           LET orig_idx == outcomes[Len(outcomes)].index
           IN  /\ last_prompt.section = orig_idx + 1
               /\ last_prompt.total = Len(chunks)
               /\ last_prompt.body = chunks[orig_idx + 1]
               /\ last_prompt.query = query

\* C20 witness: the filter kept two of four chunks, the second and the
\* fourth were never handed to the processor, and the run returned.
C20_Witness ==
    /\ pc = "returned"
    /\ Len(chunks) = 4 /\ Len(indexed_chunks) = 2
    /\ [k \in 1..Len(outcomes) |-> outcomes[k].index] = << 0, 2 >>

(***************************************************************************)
(* Claims about the loading step of rlm_process.                           *)
(***************************************************************************)

\* the way of reading the file that rlm_process tries first has failed
C21_LoadFailed ==
    IF file.converter THEN file.converted = None
    ELSE IF file.ext = ".pdf" THEN file.pdftotext = None
    ELSE IF file.ext = ".docx" THEN TRUE
    ELSE file.raw = None

\* C21: load errors are surfaced immediately and not retried: when the
\* content of the input file cannot be obtained or decoded (a failed
\* PDF/DOCX/HTML/archive conversion included), rlm_process raises to its
\* caller without trying a second way of reading the file and without
\* making any oracle call.
C21_LoadErrorsSurface ==
    (pc # "load" /\ C21_LoadFailed) =>
        /\ pc = "raised" /\ exc # None
        /\ Len(reads) <= 1
        /\ outcomes = << >> /\ synth_calls = 0 /\ last_prompt = NoPrompt

(***************************************************************************)
(* Claims about chunk_by_separator and chunk_by_regex.                     *)
(***************************************************************************)

\* the positions of the content that a match of the separator or pattern
\* takes away
C22_Cut ==
    IF chunker.fn = "chunk_by_separator"
    THEN {i + d : i \in SplitPoints(content, chunker.separator),
                  d \in 0..(Len(chunker.separator) - 1)}
    ELSE IF chunker.pattern = HeaderPattern THEN HeaderBreaks(content)
    ELSE {i + d : i \in SplitPoints(content, chunker.pattern),
                  d \in 0..(Len(chunker.pattern) - 1)}

\* the content consists of separators (matches) and whitespace only
C22_OnlySeparators ==
    \A i \in 1..Len(content) :
        i \in C22_Cut \/ Char(content, i) \in Whitespace

C23_NoMatch ==
    /\ chunker.fn = "chunk_by_regex"
    /\ IF chunker.pattern = HeaderPattern THEN HeaderBreaks(content) = {}
       ELSE Occurrences(content, chunker.pattern) = {}

\* C23 (as stated): when the pattern matches nowhere in the content,
\* chunk_by_regex returns exactly one chunk, equal to the whole content.
C23_WholeContent ==
    (pc = "chunk_done" /\ C23_NoMatch) => chunks = << content >>

\* C23 (amended): when the pattern matches nowhere in the content,
\* chunk_by_regex returns exactly one chunk, the whole content without its
\* leading and trailing whitespace (the content itself when it has none),
\* and no chunk when the content is empty or whitespace only.
C23_WholeContentTrimmed ==
    (pc = "chunk_done" /\ C23_NoMatch) =>
        LET body == {i \in 1..Len(content) : Char(content, i) \notin Whitespace}
        IN  IF body = {} THEN chunks = << >>
            ELSE /\ Len(chunks) = 1
                 /\ chunks[1] =
                        SubSeq(content,
                               CHOOSE i \in body : \A j \in body : i <= j,
                               CHOOSE i \in body : \A j \in body : i >= j)
                 /\ (Char(content, 1) \notin Whitespace
                         /\ Char(content, Len(content)) \notin Whitespace) =>
                        chunks = << content >>

\* C23 witness: a content with whitespace at both ends and no match came
\* back as one chunk, shorter than the content.
C23_Witness ==
    /\ pc = "chunk_done" /\ C23_NoMatch
    /\ Len(chunks) = 1
    /\ Len(chunks[1]) < Len(content)
    /\ Char(content, 1) \in Whitespace

(***************************************************************************)
(* Claims about extract_archive.                                           *)
(***************************************************************************)

\* the member's name, taken relative to the destination directory, leads to
\* a place inside it: the name is not absolute, and resolving its components
\* one by one from the destination ends at or below the destination
C24_Inside(name) ==
    LET dest == Resolved(Split(DestDir, "/"))
        path == Resolved(dest \o Split(name, "/"))
    IN  /\ Char(name, 1) # "/"
        /\ Len(path) >= Len(dest)
        /\ SubSeq(path, 1, Len(dest)) = dest

\* C24: _is_safe_tar_member returns True only for members that are neither
\* symbolic links nor hard links and whose name resolves inside the
\* destination directory (no '..' traversal, no absolute path), and
\* extract_archive never extracts a member for which it returns False.
C24_OnlySafeMembersExtracted ==
    /\ \A k \in 1..Len(archive) :
           IsSafeTarMember(archive[k], DestDir) =>
               /\ archive[k].type \notin {"SYMTYPE", "LNKTYPE"}
               /\ C24_Inside(archive[k].name)
    /\ \A k \in 1..Len(extracted) :
           /\ IsSafeTarMember(extracted[k], DestDir)
           /\ extracted[k].type \notin {"SYMTYPE", "LNKTYPE"}
           /\ C24_Inside(extracted[k].name)

(***************************************************************************)
(* More claims about filter_relevant_chunks.                               *)
(***************************************************************************)

\* chunk c contains word w as a substring, letter case ignored
C25_Mentions(c, w) ==
    \E at \in 0..(Len(c) - Len(w)) :
        \A i \in 1..Len(w) : LowerChar(Char(c, at + i)) = LowerChar(Char(w, i))

\* C25: when at least one keyword is available and the 10% fallback does
\* not fire, filter_relevant_chunks returns exactly the chunks that contain
\* at least one keyword as a case-insensitive substring, each with its
\* original index, and no chunk that contains none (query 'security issues'
\* over the three chunks of the test selects indices {0, 2}); explicit
\* keywords, when given and non-empty, take the place of the query's.
C25_ExactlyTheMatching ==
    LET explicit == keywords # NoKeywords /\ keywords[1] # << >>
        kw       == IF explicit THEN keywords[1] ELSE QueryKeywords(query)
        hits     == {i \in 0..(Len(chunks) - 1) :
                        \E k \in 1..Len(kw) : C25_Mentions(chunks[i + 1], kw[k])}
    IN  (pc = "filter_done" /\ kw # << >>
             /\ 10 * Cardinality(hits) >= Len(chunks)) =>
            /\ indexed_chunks =
                   [k \in 1..Cardinality(hits) |->
                       << SortedSeq(hits)[k], chunks[SortedSeq(hits)[k] + 1] >>]
            /\ (chunks = ScenarioChunks /\ query = "security issues"
                    /\ ~explicit) =>
                   {indexed_chunks[k][1] : k \in 1..Len(indexed_chunks)} = {0, 2}

\* C25 witness: explicit keywords spelt in capitals were given with a query
\* that has keywords of its own, and the chunk selected is the one that
\* mentions the explicit keyword, not the ones that mention the query's.
C25_Witness ==
    /\ pc = "filter_done"
    /\ keywords = << << "RECIPES" >> >> /\ query = "security issues"
    /\ Len(SelectSeq(chunks, LAMBDA c : C25_Mentions(c, "security"))) = 2
    /\ Len(indexed_chunks) = 1
    /\ indexed_chunks[1] = << 1, "This chunk discusses cooking recipes." >>

(***************************************************************************)
(* More claims about the processing loop of rlm_process.                   *)
(***************************************************************************)

\* text t without its leading and trailing whitespace
C26_Trimmed(t) ==
    LET lead  == CHOOSE n \in 0..Len(t) :
                     /\ \A i \in 1..n : Char(t, i) \in Whitespace
                     /\ n = Len(t) \/ Char(t, n + 1) \notin Whitespace
        trail == CHOOSE n \in 0..Len(t) :
                     /\ \A i \in (Len(t) - n + 1)..Len(t) : Char(t, i) \in Whitespace
                     /\ n = Len(t) \/ Char(t, Len(t) - n) \notin Whitespace
    IN  IF lead = Len(t) THEN "" ELSE SubSeq(t, lead + 1, Len(t) - trail)

\* for each reply the oracle may give, the result process_chunk must give
C26_Expected ==
    [r \in ShortReplies \cup LongReplies |->
        IF \E at \in 1..(Len(r) - 15) : SubSeq(r, at, at + 15) = "NO_RELEVANT_INFO"
        THEN None ELSE C26_Trimmed(r)]

\* the positions of the outcomes whose extraction is present and non-empty
C26_Present ==
    {k \in 1..Len(outcomes) :
        outcomes[k].result # None /\ Len(outcomes[k].result) > 0}

\* C26: process_chunk makes exactly one oracle call; when the reply contains
\* the sentinel NO_RELEVANT_INFO anywhere the result is absent, otherwise it
\* is the whole reply without leading and trailing whitespace; and
\* rlm_process hands to the aggregator exactly the (original_index,
\* extraction) pairs whose extraction is present and non-empty, in
\* increasing original-index order.
C26_ExtractionsHandedOver ==
    /\ \A k \in 1..Len(outcomes) :
           LET o == outcomes[k]
           IN  /\ (o.reply = None) # (o.error = None)
               /\ o.reply # None => o.result = C26_Expected[o.reply]
    /\ pc = "process" => Len(outcomes) = ci
    /\ stack # << >> =>
           LET given == stack[1].results
               P     == SortedSeq(C26_Present)
           IN  /\ given = [k \in 1..Len(P) |->
                               << outcomes[P[k]].index, outcomes[P[k]].result >>]
               /\ \A k \in 1..(Len(given) - 1) : given[k][1] < given[k + 1][1]

\* C26 witness: one reply held the sentinel inside a sentence, another was
\* an extraction with whitespace around it, a third was empty, and the
\* aggregator was given the one trimmed extraction, of the second chunk.
C26_Witness ==
    /\ stack # << >>
    /\ Len(outcomes) >= 3
    /\ outcomes[1].reply = "Nothing on that here: NO_RELEVANT_INFO.\n"
    /\ outcomes[2].reply = "  Found: SQL injection.\n"
    /\ outcomes[3].reply = ""
    /\ stack[1].results = << << outcomes[2].index, "Found: SQL injection." >> >>

(***************************************************************************)
(* More claims about aggregate_results.                                    *)
(***************************************************************************)

\* the labelled blocks of the pairs of rs, in list order, a blank line
\* between two blocks
C27_Blocks(rs) ==
    Join([k \in 1..Len(rs) |->
             "[Section " \o ToString(rs[k][1] + 1) \o "]\n" \o rs[k][2]],
         "\n\n")

\* C27: in the text aggregate_results builds for a list at or below the
\* threshold every pair (i, text) is one block labelled 'Section i+1', i
\* being the chunk's original (pre-filter) index, and the blocks stand in
\* list order; a two-entry list with indices 0 and 1 gives exactly one
\* synthesis prompt, which holds both 'Section 1' and 'Section 2'.
C27_LabelledBlocks ==
    /\ \A k \in 1..Len(stack) :
           (stack[k].pc \in {"check", "synth"} /\ stack[k].recursed = 0) =>
               stack[k].combined = C27_Blocks(stack[k].results)
    /\ \A j \in 1..Len(results) :
           \E k \in 1..Len(indexed_chunks) :
               /\ indexed_chunks[k][1] = results[j][1]
               /\ indexed_chunks[k][2] = chunks[results[j][1] + 1]
               /\ outcomes[k].result = results[j][2]
    /\ (pc = "returned" /\ last_ret.depth = 1 /\ last_ret.results # << >>
            /\ last_ret.recursed = 0) =>
           /\ last_ret.results = results
           /\ last_prompt = [kind |-> "synthesis", body |-> C27_Blocks(results),
                             query |-> query]
           /\ synth_calls = 1
           /\ (Len(results) = 2 /\ results[1][1] = 0 /\ results[2][1] = 1) =>
                  /\ Contains(last_prompt.body, "Section 1")
                  /\ Contains(last_prompt.body, "Section 2")

\* C27 witness: the filter kept the first and the third of four chunks,
\* both gave an extraction, and the one synthesis prompt labels them
\* 'Section 1' and 'Section 3'.
C27_Witness ==
    /\ pc = "returned" /\ synth_calls = 1
    /\ Len(chunks) = 4
    /\ [k \in 1..Len(results) |-> results[k][1]] = << 0, 2 >>
    /\ last_prompt.kind = "synthesis"
    /\ last_prompt.body =
           "[Section 1]\nFound: SQL injection.\n\n[Section 3]\nFound: SQL injection."

\* the lists of the leaf prompts sent so far (the prompts of invocations
\* that have not recursed), one after the other
RECURSIVE C28_LeafPairs(_)
C28_LeafPairs(n) ==
    IF n = 0 THEN << >>
    ELSE IF synth_prompts[n].recursed = 0
         THEN C28_LeafPairs(n - 1) \o synth_prompts[n].results
         ELSE C28_LeafPairs(n - 1)

\* C28: when aggregate_results splits an over-threshold list of n pairs the
\* recursive calls are given the first floor(n/2) pairs and the remaining
\* pairs (disjoint, in order, together the whole list) with the query
\* 'Summarize these findings'; so, whenever the aggregation terminates, every
\* extraction is in exactly one leaf synthesis prompt, and only the
\* outermost synthesis call carries the caller's query.
C28_HalvesAndLeaves ==
    /\ \A k \in 2..Len(stack) :
           LET rs == stack[k - 1].results
               n  == Len(rs)
               h  == n \div 2
           IN  /\ Len(C27_Blocks(rs)) > 50000
               /\ stack[k - 1].pc \in {"left", "right"}
               /\ stack[k - 1].pc = "left" =>
                      stack[k].results = [i \in 1..h |-> rs[i]]
               /\ stack[k - 1].pc = "right" =>
                      stack[k].results = [i \in 1..(n - h) |-> rs[h + i]]
               /\ stack[k].query = "Summarize these findings"
    /\ \A k \in 1..Len(synth_prompts) :
           LET sp == synth_prompts[k]
           IN  /\ sp.depth > 1 => sp.query = "Summarize these findings"
               /\ sp.depth = 1 => sp.query = query
               /\ sp.query = query <=> sp.depth = 1
               /\ sp.recursed = 0 => sp.body = C27_Blocks(sp.results)
    /\ (pc = "returned" /\ results # << >>) =>
           /\ C28_LeafPairs(Len(synth_prompts)) = results
           /\ \A j \in 1..Len(results) :
                  Cardinality({k \in 1..Len(synth_prompts) :
                      /\ synth_prompts[k].recursed = 0
                      /\ \E i \in 1..Len(synth_prompts[k].results) :
                             synth_prompts[k].results[i] = results[j]}) = 1
           /\ synth_prompts[Len(synth_prompts)].depth = 1

\* C28 witness: a list of three pairs was split twice (1 + 2, then 1 + 1),
\* three leaf prompts and two prompts over summaries were sent, and the
\* aggregation returned.
C28_Witness ==
    /\ pc = "returned" /\ Len(results) = 3
    /\ Len(synth_prompts) = 5
    /\ Cardinality({k \in 1..5 : synth_prompts[k].recursed = 0}) = 3
    /\ synth_prompts[1].results = << results[1] >>
    /\ synth_prompts[5].recursed = 2 /\ synth_prompts[5].query = query

\* C29: filter_relevant_chunks never returns an empty selection for a
\* non-empty chunk sequence, whatever the query and the keyword list: with
\* at least one input chunk at least one (index, chunk) pair is returned.
C29_NeverEmptySelection ==
    (pc = "filter_done" /\ Len(chunks) >= 1) => Len(indexed_chunks) >= 1

\* C29 witness: keywords were in force, no chunk of a non-empty list
\* mentioned any of them, and the selection is not empty.
C29_Witness ==
    /\ pc = "filter_done" /\ Len(chunks) >= 1
    /\ EffectiveKeywords(query, keywords) # << >>
    /\ \A k \in 1..Len(chunks) :
           \A w \in 1..Len(EffectiveKeywords(query, keywords)) :
               ~C25_Mentions(chunks[k], EffectiveKeywords(query, keywords)[w])
    /\ Len(indexed_chunks) >= 1

(***************************************************************************)
(* More claims about auto_chunk.                                           *)
(***************************************************************************)

\* C30 (as stated): whichever strategy is selected, every chunk auto_chunk
\* returns is shorter than twice the target chunk size.
C30_AllChunksBounded ==
    pc = "chunked" =>
        \A k \in 1..Len(chunks) : Len(chunks[k]) < 2 * chunk_size

\* C30 (amended): a chunk auto_chunk returns is at most the target chunk
\* size long under strategy character_count and shorter than twice the
\* target under markdown_headers.  Under document_separator only the average
\* (content length by separator count) is below twice the target, and under
\* line_count a chunk holds at most max(100, target // 100) lines: single
\* chunks of these two strategies may be longer than twice the target.
C30_BoundedByStrategy ==
    pc = "chunked" =>
        /\ strategy = "character_count" =>
               \A k \in 1..Len(chunks) : Len(chunks[k]) <= chunk_size
        /\ strategy = "markdown_headers" =>
               \A k \in 1..Len(chunks) : Len(chunks[k]) < 2 * chunk_size
        /\ strategy = "document_separator" =>
               /\ Len(content) < 2 * chunk_size * DocSeps(content)
               /\ C16_TotalSize(chunks) <= Len(content)
        /\ strategy = "line_count" =>
               \A k \in 1..Len(chunks) :
                   C15_Newlines(chunks[k]) + 1 <= Max(100, chunk_size \div 100)

\* C30 witness: auto_chunk chose document_separator and returned a chunk at
\* least twice the target long.
C30_Witness ==
    /\ pc = "chunked" /\ strategy = "document_separator"
    /\ \E k \in 1..Len(chunks) : Len(chunks[k]) >= 2 * chunk_size


====
